---- MODULE Spec2Model ----
(***************************************************************************)
(* Benefits reconciliation engine of ipgrok_api                            *)
(* (src/app/routes/benefits_compare.py, src/app/config.py,                 *)
(* src/app/utils.py): header canonicalization, cleansing, identity join,   *)
(* diff and consolidation, modelled as state machines.                     *)
(*                                                                         *)
(* Text is modelled by TLA+ strings; Python's None and NaN cells by the    *)
(* texts NONE and NAN.                                                     *)
(* Python list indices i, j keep their 0-based values; the sequence        *)
(* element at Python index k is seq[k + 1].                                *)
(***************************************************************************)
EXTENDS Integers, Sequences, FiniteSets, TLC

(***************************************************************************)
(* Static configuration (src/app/config.py)                                *)
(***************************************************************************)

\* src/app/config.py lines 3-7
base_matching_attribs ==
    << "last name", "first name", "dob" >>

\* src/app/config.py lines 9-12
extended_bases_attribs ==
    << "gender", "salary" >>

\* src/app/config.py lines 56-66
core_product_names ==
    << "basic employee life", "basic employee add", "supplemental employee life",
       "supplemental spouse life", "supplemental child life", "supplemental employee add",
       "supplemental child add", "short term disability", "long term disability" >>

\* The attributes with one the primary dictionary has for no product.
core_product_attribs_Termination ==
    << "benefit", "class", "effective date", "termination date" >>

\* src/app/config.py lines 68-72
core_product_attribs ==
    << "benefit", "class", "effective date" >>

\* src/app/config.py lines 74-85
partner_product_names ==
    << "Basic Life", "Basic ADD", "Supplemental Life",
       "Supplemental Spouse Life", "Supplemental Child Life", "Supplemental ADD",
       "Supplemental Spouse ADD", "Supplemental Child ADD", "VSTD",
       "Long Term Disability" >>

\* src/app/config.py lines 173-184
sort_fixed_columns ==
    << "first name", "last name", "change",
       "full name", "status", "action",
       "change date", "dob", "date of hire",
       "salary effective date" >>

\* src/app/config.py lines 186-189
sort_match_columns ==
    << "salary.*", "gender.*" >>

\* A drop list of the columns of the primary table only.
drop_columns_PrimaryOnly ==
    << "occupation", "bill location" >>

\* src/app/config.py lines 191-197
drop_columns ==
    << "division", "occupation", "conversion effective date",
       "bill location", "_merge" >>

\* enrollment_fields with the canonical name of "Last Name" mistyped as the raw
\* header "Name", itself a key of the dictionary.
enrollment_fields_chained ==
    << <<"Name", "full name", "name">>,
       <<"Last Name", "Name", "name">>,
       <<"First Name", "first name", "name">>,
       <<"Birth Date", "dob", "date">>,
       <<"Gender", "gender", "gender">>,
       <<"Occupation", "occupation", "string">>,
       <<"Bill Location", "bill location", "string">>,
       <<"Annual Salary", "salary", "currency">>,
       <<"Termination Date", "termination date", "None">>,
       <<"Basic Employee AD&D Benefit", "basic employee add benefit", "currency">>,
       <<"Basic Employee AD&D Class #", "basic employee add class", "string">>,
       <<"Basic Employee AD&D Effective Date", "basic employee add effective date", "date">>,
       <<"Basic Employee Life Benefit", "basic employee life benefit", "currency">>,
       <<"Basic Employee Life Class #", "basic employee life class", "string">>,
       <<"Basic Employee Life Effective Date", "basic employee life effective date", "date">>,
       <<"Long Term Disability Benefit", "long term disability benefit", "currency">>,
       <<"Long Term Disability Class #", "long term disability class", "string">>,
       <<"Long Term Disability Effective Date", "long term disability effective date", "date">>,
       <<"Short Term Disability Benefit", "short term disability benefit", "currency">>,
       <<"Short Term Disability Class #", "short term disability class", "string">>,
       <<"Short Term Disability Effective Date", "short term disability effective date", "date">>,
       <<"Supplemental Child AD&D Benefit", "supplemental child add benefit", "currency">>,
       <<"Supplemental Child AD&D Class #", "supplemental child add class", "string">>,
       <<"Supplemental Child AD&D Effective Date", "supplemental child add effective date", "date">>,
       <<"Supplemental Child Life Benefit", "supplemental child life benefit", "currency">>,
       <<"Supplemental Child Life Class #", "supplemental child life class", "string">>,
       <<"Supplemental Child Life Effective Date", "supplemental child life effective date", "date">>,
       <<"Supplemental Employee AD&D Benefit", "supplemental employee add benefit", "currency">>,
       <<"Supplemental Employee AD&D Class #", "supplemental employee add class", "string">>,
       <<"Supplemental Employee AD&D Effective Date", "supplemental employee add effective date", "date">>,
       <<"Supplemental Employee Life Benefit", "supplemental employee life benefit", "currency">>,
       <<"Supplemental Employee Life Class #", "supplemental employee life class", "string">>,
       <<"Supplemental Employee Life Effective Date", "supplemental employee life effective date", "date">>,
       <<"Supplemental Spouse AD&D Benefit", "supplemental spouse add benefit", "currency">>,
       <<"Supplemental Spouse AD&D Class #", "supplemental spouse add class", "string">>,
       <<"Supplemental Spouse AD&D Effective Date", "supplemental spouse add effective date", "date">>,
       <<"Supplemental Spouse Life Benefit", "supplemental spouse life benefit", "currency">>,
       <<"Supplemental Spouse Life Class #", "supplemental spouse life class", "string">>,
       <<"Supplemental Spouse Life Effective Date", "supplemental spouse life effective date", "date">> >>

\* src/app/config.py lines 14-53: <<raw header, canonical name, type tag>>, in dictionary order
enrollment_fields ==
    << <<"Name", "full name", "name">>,
       <<"Last Name", "last name", "name">>,
       <<"First Name", "first name", "name">>,
       <<"Birth Date", "dob", "date">>,
       <<"Gender", "gender", "gender">>,
       <<"Occupation", "occupation", "string">>,
       <<"Bill Location", "bill location", "string">>,
       <<"Annual Salary", "salary", "currency">>,
       <<"Termination Date", "termination date", "None">>,
       <<"Basic Employee AD&D Benefit", "basic employee add benefit", "currency">>,
       <<"Basic Employee AD&D Class #", "basic employee add class", "string">>,
       <<"Basic Employee AD&D Effective Date", "basic employee add effective date", "date">>,
       <<"Basic Employee Life Benefit", "basic employee life benefit", "currency">>,
       <<"Basic Employee Life Class #", "basic employee life class", "string">>,
       <<"Basic Employee Life Effective Date", "basic employee life effective date", "date">>,
       <<"Long Term Disability Benefit", "long term disability benefit", "currency">>,
       <<"Long Term Disability Class #", "long term disability class", "string">>,
       <<"Long Term Disability Effective Date", "long term disability effective date", "date">>,
       <<"Short Term Disability Benefit", "short term disability benefit", "currency">>,
       <<"Short Term Disability Class #", "short term disability class", "string">>,
       <<"Short Term Disability Effective Date", "short term disability effective date", "date">>,
       <<"Supplemental Child AD&D Benefit", "supplemental child add benefit", "currency">>,
       <<"Supplemental Child AD&D Class #", "supplemental child add class", "string">>,
       <<"Supplemental Child AD&D Effective Date", "supplemental child add effective date", "date">>,
       <<"Supplemental Child Life Benefit", "supplemental child life benefit", "currency">>,
       <<"Supplemental Child Life Class #", "supplemental child life class", "string">>,
       <<"Supplemental Child Life Effective Date", "supplemental child life effective date", "date">>,
       <<"Supplemental Employee AD&D Benefit", "supplemental employee add benefit", "currency">>,
       <<"Supplemental Employee AD&D Class #", "supplemental employee add class", "string">>,
       <<"Supplemental Employee AD&D Effective Date", "supplemental employee add effective date", "date">>,
       <<"Supplemental Employee Life Benefit", "supplemental employee life benefit", "currency">>,
       <<"Supplemental Employee Life Class #", "supplemental employee life class", "string">>,
       <<"Supplemental Employee Life Effective Date", "supplemental employee life effective date", "date">>,
       <<"Supplemental Spouse AD&D Benefit", "supplemental spouse add benefit", "currency">>,
       <<"Supplemental Spouse AD&D Class #", "supplemental spouse add class", "string">>,
       <<"Supplemental Spouse AD&D Effective Date", "supplemental spouse add effective date", "date">>,
       <<"Supplemental Spouse Life Benefit", "supplemental spouse life benefit", "currency">>,
       <<"Supplemental Spouse Life Class #", "supplemental spouse life class", "string">>,
       <<"Supplemental Spouse Life Effective Date", "supplemental spouse life effective date", "date">> >>

\* src/app/config.py lines 96-171: <<raw header, canonical name, type tag>>, in dictionary order
partner_fields ==
    << <<"Status", "status", "None">>,
       <<"Action", "action", "None">>,
       <<"Last Name", "last name", "name">>,
       <<"First Name", "first name", "name">>,
       <<"Middle Initial", "middle initial", "string">>,
       <<"Gender", "gender", "gender">>,
       <<"Date of Birth", "dob", "date">>,
       <<"Date of Hire", "date of hire", "date">>,
       <<"Part time to Full Time Effective Date", "conversion effective date", "date">>,
       <<"Salary", "salary", "currency">>,
       <<"Salary Effective Date", "salary effective date", "date">>,
       <<"Division", "division", "None">>,
       <<"Change Date", "change date", "date">>,
       <<"Basic Life", "basic employee life", "string">>,
       <<"Basic Life class", "basic employee life class", "string">>,
       <<"Basic Life change effective date", "basic employee life effective date", "date">>,
       <<"Basic Life coverage amount", "basic employee life benefit", "currency">>,
       <<"Basic Life coverage date", "basic employee life coverage date", "date">>,
       <<"Basic Life termination date", "basic employee life termination date", "date">>,
       <<"Basic ADD", "basic employee add", "string">>,
       <<"Basic ADD class", "basic employee add class", "string">>,
       <<"Basic ADD change effective date", "basic employee add effective date", "date">>,
       <<"Basic ADD coverage amount", "basic employee add benefit", "currency">>,
       <<"Basic ADD coverage date", "basic employee add coverage date", "date">>,
       <<"Basic ADD termination date", "basic employee add termination date", "date">>,
       <<"Supplemental Life", "supplemental employee life", "string">>,
       <<"Supplemental Life class", "supplemental employee life class", "string">>,
       <<"Supplemental Life change effective date", "supplemental employee life effective date", "date">>,
       <<"Supplemental Life coverage amount", "supplemental employee life benefit", "currency">>,
       <<"Supplemental Life coverage date", "supplemental employee life coverage date", "date">>,
       <<"Supplemental Life termination date", "supplemental employee life termination date", "date">>,
       <<"Spouse Date of Birth", "supplemental spouse life benefit dob", "string">>,
       <<"Supplemental Spouse Life", "supplemental spouse life", "currency">>,
       <<"Supplemental Spouse Life class", "supplemental spouse life class", "string">>,
       <<"Supplemental Spouse Life change effective date", "supplemental spouse life effective date", "date">>,
       <<"Supplemental Spouse Life coverage amount", "supplemental spouse life benefit", "currency">>,
       <<"Supplemental Spouse Life coverage date", "supplemental spouse life coverage date", "date">>,
       <<"Supplemental Spouse Life termination date", "supplemental spouse life termination date", "date">>,
       <<"Supplemental Child Life", "supplemental child life", "string">>,
       <<"Supplemental Child Life class", "supplemental child life class", "string">>,
       <<"Supplemental Child Life change effective date", "supplemental child life effective date", "date">>,
       <<"Supplemental Child Life coverage amount", "supplemental child life benefit", "currency">>,
       <<"Supplemental Child Life coverage date", "supplemental child life coverage date", "date">>,
       <<"Supplemental Child Life termination date", "supplemental child life termination date", "date">>,
       <<"Supplemental ADD", "supplemental employee add", "currency">>,
       <<"Supplemental ADD class", "supplemental employee add class", "string">>,
       <<"Supplemental ADD change effective date", "supplemental employee add effective date", "date">>,
       <<"Supplemental ADD coverage amount", "supplemental employee add benefit", "currency">>,
       <<"Supplemental ADD coverage date", "supplemental employee add coverage date", "date">>,
       <<"Supplemental ADD termination date", "supplemental employee add termination date", "date">>,
       <<"Supplemental Spouse ADD", "supplemental spouse add", "currency">>,
       <<"Supplemental Spouse ADD class", "supplemental spouse add class", "string">>,
       <<"Supplemental Spouse ADD change effective date", "supplemental spouse add effective date", "date">>,
       <<"Supplemental Spouse ADD coverage amount", "supplemental spouse add benefit", "currency">>,
       <<"Supplemental Spouse ADD coverage date", "supplemental spouse add coverage date", "date">>,
       <<"Supplemental Spouse ADD termination date", "supplemental spouse add termination date", "date">>,
       <<"Supplemental Child ADD", "supplemental child add", "currency">>,
       <<"Supplemental Child ADD class", "supplemental child add class", "string">>,
       <<"Supplemental Child ADD change effective date", "supplemental child add effective date", "date">>,
       <<"Supplemental Child ADD coverage amount", "supplemental child add benefit", "currency">>,
       <<"Supplemental Child ADD coverage date", "supplemental child add coverage date", "date">>,
       <<"Supplemental Child ADD termination date", "supplemental child add termination date", "date">>,
       <<"VSTD", "short term disability", "string">>,
       <<"VSTD class", "short term disability class", "string">>,
       <<"VSTD change effective date", "short term disability effective date", "date">>,
       <<"VSTD coverage amount", "short term disability benefit", "currency">>,
       <<"VSTD coverage date", "short term disability coverage date", "date">>,
       <<"VSTD termination date", "short term disability termination date", "date">>,
       <<"Long Term Disability", "long term disability", "srting">>,
       <<"Long Term Disability class", "long term disability class", "string">>,
       <<"Long Term Disability change effective date", "long term disability effective date", "date">>,
       <<"Long Term Disability coverage amount", "long term disability benefit", "currency">>,
       <<"Long Term Disability coverage date", "long term disability coverage date", "date">>,
       <<"Long Term Disability termination date", "long term disability termination date", "date">> >>

\* src/app/config.py lines 87-93: <<attribute header, template text before the placeholder
\* REPLACE, template text after it>>
partner_product_attrs ==
    << <<"Class", "", " class">>,
       <<"Class Change Effective Date", "", " change effective date">>,
       <<"Coverage Amount", "", " coverage amount">>,
       <<"Coverage Effective Date", "", " coverage date">>,
       <<"Termination Date", "", " termination date">> >>

(***************************************************************************)
(* Bounds of the model                                                     *)
(***************************************************************************)

\* Longest header row drawn for the header-mapping specification.
MaxHeaders == 3

\* Headers the header-mapping specification draws rows from: two partner
\* product names, two attribute headers (one of them also a key of
\* enrollment_fields), a key of both dictionaries, a canonical name and a
\* header neither dictionary knows.
HeaderPool ==
    { "Basic Life", "VSTD", "Class", "Termination Date",
      "Last Name", "last name", "Employee ID" }

RECURSIVE HeaderRowsOfLen(_)
HeaderRowsOfLen(n) ==
    IF n = 0 THEN { <<>> }
    ELSE { Append(r, h) : r \in HeaderRowsOfLen(n - 1), h \in HeaderPool }

HeaderRows == UNION { HeaderRowsOfLen(n) : n \in 1..MaxHeaders }

(***************************************************************************)
(* Helpers over sequences                                                  *)
(***************************************************************************)

Range(s) == { s[k] : k \in 1..Len(s) }


(***************************************************************************)
(* Text.  A Python str is a TLA+ string; the operators below are the str   *)
(* methods the code calls, computed character by character.                *)
(***************************************************************************)

\* A missing cell: Python's None and the float NaN of the table reader.
NONE == "<None>"
NAN == "<NaN>"

IsNull(v) == v = NONE \/ v = NAN

\* isinstance(v, str)
IsStr(v) == ~IsNull(v)

UpperChars == "ABCDEFGHIJKLMNOPQRSTUVWXYZ"
LowerChars == "abcdefghijklmnopqrstuvwxyz"
DigitChars == "0123456789"
\* The characters of the model's texts in code point order.
CodePointOrder ==
    " #$&,-./0123456789:;<>ABCDEFGHIJKLMNOPQRSTUVWXYZ_abcdefghijklmnopqrstuvwxyz"

CharAt(s, k) == SubSeq(s, k, k)

\* The 1-based position of character c in s, 0 when s lacks it.
IndexOf(s, c) ==
    IF \E k \in 1..Len(s) : CharAt(s, k) = c
    THEN CHOOSE k \in 1..Len(s) :
             CharAt(s, k) = c /\ \A m \in 1..(k - 1) : CharAt(s, m) # c
    ELSE 0

\* The place of each character of the model's texts in code point order.
CodePoint ==
    [c \in { CharAt(CodePointOrder, k) : k \in 1..Len(CodePointOrder) } |->
        IndexOf(CodePointOrder, c)]

\* str.startswith, str.endswith
StartsWith(s, p) == Len(s) >= Len(p) /\ SubSeq(s, 1, Len(p)) = p
EndsWith(s, p) == Len(s) >= Len(p) /\ SubSeq(s, Len(s) - Len(p) + 1, Len(s)) = p

LowerChar(c) ==
    IF IndexOf(UpperChars, c) > 0 THEN CharAt(LowerChars, IndexOf(UpperChars, c)) ELSE c

\* str.lower
RECURSIVE Lower(_)
Lower(s) == IF s = "" THEN "" ELSE LowerChar(Head(s)) \o Lower(Tail(s))

\* str.strip (of blanks)
RECURSIVE LStrip(_)
LStrip(s) == IF s # "" /\ Head(s) = " " THEN LStrip(Tail(s)) ELSE s
RECURSIVE RStrip(_)
RStrip(s) ==
    IF s # "" /\ CharAt(s, Len(s)) = " " THEN RStrip(SubSeq(s, 1, Len(s) - 1)) ELSE s
Strip(s) == RStrip(LStrip(s))

\* The 1-based position of the first occurrence of sub in s at or after k, 0
\* when there is none (str.find).
FindFrom(s, sub, k) ==
    LET At(p) == SubSeq(s, p, p + Len(sub) - 1) = sub
        last == Len(s) - Len(sub) + 1
    IN  IF \E p \in k..last : At(p)
        THEN CHOOSE p \in k..last : At(p) /\ \A m \in k..(p - 1) : ~At(m)
        ELSE 0

\* str.split(sep): the list of parts
RECURSIVE Split(_, _)
Split(s, sep) ==
    LET k == FindFrom(s, sep, 1)
    IN  IF k = 0 THEN << s >>
        ELSE << SubSeq(s, 1, k - 1) >> \o Split(SubSeq(s, k + Len(sep), Len(s)), sep)

\* re.sub of every character outside (or inside) a character set by ''
RECURSIVE KeepChars(_, _)
KeepChars(s, keep) ==
    IF s = "" THEN ""
    ELSE (IF IndexOf(keep, Head(s)) > 0 THEN Head(s) ELSE "") \o KeepChars(Tail(s), keep)
RECURSIVE DropChars(_, _)
DropChars(s, drop) ==
    IF s = "" THEN ""
    ELSE (IF IndexOf(drop, Head(s)) > 0 THEN "" ELSE Head(s)) \o DropChars(Tail(s), drop)

IsDigits(s) == s # "" /\ \A k \in 1..Len(s) : IndexOf(DigitChars, CharAt(s, k)) > 0

\* int() of a text of digits
RECURSIVE DigitsToInt(_)
DigitsToInt(s) ==
    IF s = "" THEN 0
    ELSE 10 * DigitsToInt(SubSeq(s, 1, Len(s) - 1))
           + (IndexOf(DigitChars, CharAt(s, Len(s))) - 1)

\* The decimal digits of n, at least w of them (a %0wd format).
RECURSIVE IntToDigits(_, _)
IntToDigits(n, w) ==
    IF n < 10 /\ w <= 1 THEN CharAt(DigitChars, n + 1)
    ELSE IntToDigits(n \div 10, w - 1) \o CharAt(DigitChars, (n % 10) + 1)

\* Python's order of str (code points), on the model's characters.
\* The length of the longest common prefix of a and b, known to lie in
\* lo..hi.
RECURSIVE CommonPrefix(_, _, _, _)
CommonPrefix(a, b, lo, hi) ==
    IF lo = hi THEN lo
    ELSE LET mid == (lo + hi + 1) \div 2
         IN  IF SubSeq(a, 1, mid) = SubSeq(b, 1, mid) THEN CommonPrefix(a, b, mid, hi)
             ELSE CommonPrefix(a, b, lo, mid - 1)

StrLess(a, b) ==
    LET n == IF Len(a) < Len(b) THEN Len(a) ELSE Len(b)
        common == CommonPrefix(a, b, 0, n)
        p == IF common = n THEN 0 ELSE common + 1
    IN  IF p = 0 THEN Len(a) < Len(b)
        ELSE CodePoint[CharAt(a, p)] < CodePoint[CharAt(b, p)]


(***************************************************************************)
(* Value normalizers (src/app/utils.py).  RAISES stands for a call that    *)
(* ends in an exception.                                                   *)
(***************************************************************************)

RAISES == "<raises>"

\* utils.py lines 8-12: gender_map, <<standard gender, variations>>
gender_map ==
    << <<"male", {"male", "m", "man", "boy"}>>,
       <<"female", {"female", "f", "woman", "girl"}>>,
       <<"other", {"other", "non-binary", "nonbinary", "nb", "genderqueer", "genderfluid"}>> >>

\* A normalizer without the synonym table: the text trimmed and lower-cased.
normalize_gender_NoSynonyms(gender) ==
    IF gender = NONE \/ gender = "" THEN "null"
    ELSE IF gender = NAN THEN RAISES
    ELSE Lower(Strip(gender))

\* utils.py lines 4-16.  A float NaN has no strip(): AttributeError.
normalize_gender(gender) ==
    IF gender = NONE \/ gender = "" THEN "null"
    ELSE IF gender = NAN THEN RAISES
    ELSE LET normalized_gender == Lower(Strip(gender))
         IN  IF \E k \in 1..Len(gender_map) : normalized_gender \in gender_map[k][2]
             THEN gender_map[CHOOSE k \in 1..Len(gender_map) :
                                 normalized_gender \in gender_map[k][2]][1]
             ELSE "other"

\* float(text) accepts digits with at most one decimal point and at least
\* one digit (the text holds only digits and points here).
IsFloatText(s) ==
    LET parts == Split(s, ".")
    IN  /\ Len(parts) <= 2
        /\ \A k \in 1..Len(parts) : parts[k] = "" \/ IsDigits(parts[k])
        /\ \E k \in 1..Len(parts) : parts[k] # ""

\* f"{float(s):.2f}" for a text s that float() accepts.  Exact for amounts
\* of at most two fraction digits; a longer fraction is rounded on its third
\* digit.
FormatTwoDecimals(s) ==
    LET parts == Split(s, ".")
        whole == DigitsToInt(parts[1])
        frac == IF Len(parts) = 2 THEN parts[2] ELSE ""
        cents == DigitsToInt(SubSeq(frac \o "00", 1, 2))
        up == IF Len(frac) > 2 /\ DigitsToInt(CharAt(frac, 3)) >= 5 THEN 1 ELSE 0
        carried == cents + up
    IN  IntToDigits(whole + (carried \div 100), 1) \o "." \o IntToDigits(carried % 100, 2)

\* A normalizer that answers "null" for a text float() refuses.
normalize_and_validate_dollar_amount_Lenient(amount) ==
    IF amount = NONE \/ amount = "" THEN "null"
    ELSE IF ~IsFloatText(KeepChars(IF amount = NAN THEN "nan" ELSE amount,
                                   DigitChars \o "."))
    THEN "null"
    ELSE FormatTwoDecimals(KeepChars(amount, DigitChars \o "."))

\* utils.py lines 22-33.  str(NaN) is "nan".
normalize_and_validate_dollar_amount(amount) ==
    IF amount = NONE \/ amount = "" THEN "null"
    ELSE LET amount_str == IF amount = NAN THEN "nan" ELSE amount
             normalized_amount == KeepChars(amount_str, DigitChars \o ".")
         IN  IF normalized_amount = "" THEN "null"
             ELSE IF ~IsFloatText(normalized_amount) THEN RAISES
             ELSE FormatTwoDecimals(normalized_amount)

IsLeapYear(y) == (y % 4 = 0 /\ y % 100 # 0) \/ y % 400 = 0

DaysInMonth(y, m) ==
    IF m = 2 THEN (IF IsLeapYear(y) THEN 29 ELSE 28)
    ELSE IF m \in {4, 6, 9, 11} THEN 30 ELSE 31

IsDate(y, m, d) == y >= 1 /\ m \in 1..12 /\ d >= 1 /\ d <= DaysInMonth(y, m)

\* A date: the value of a datetime, or NoDate.
NoDate == [y |-> 0, m |-> 0, d |-> 0]

\* datetime.strptime(s, fmt) for the formats of utils.py line 38: fmt names
\* the separator and the order of the fields.  %m and %d take one or two
\* digits, %Y four.
Strptime(s, sep, order) ==
    LET parts == Split(s, sep)
    IN  IF Len(parts) # 3 \/ \E k \in 1..3 : ~IsDigits(parts[k]) THEN NoDate
        ELSE LET ypos == CHOOSE k \in 1..3 : order[k] = "Y"
                 mpos == CHOOSE k \in 1..3 : order[k] = "m"
                 dpos == CHOOSE k \in 1..3 : order[k] = "d"
                 y == DigitsToInt(parts[ypos])
                 m == DigitsToInt(parts[mpos])
                 d == DigitsToInt(parts[dpos])
             IN  IF /\ Len(parts[ypos]) = 4
                    /\ Len(parts[mpos]) <= 2
                    /\ Len(parts[dpos]) <= 2
                    /\ IsDate(y, m, d)
                 THEN [y |-> y, m |-> m, d |-> d]
                 ELSE NoDate

\* strftime("%m/%d/%Y")
Strftime(date) ==
    IntToDigits(date.m, 2) \o "/" \o IntToDigits(date.d, 2) \o "/" \o IntToDigits(date.y, 4)

\* The formats with the day-first reading of a date with slashes tried first.
date_formats_DayFirst ==
    << <<"/", <<"d", "m", "Y">> >>,
       <<"-", <<"Y", "m", "d">> >>,
       <<"-", <<"d", "m", "Y">> >>,
       <<"/", <<"m", "d", "Y">> >> >>

\* utils.py line 38: date_formats, <<separator, field order>>
date_formats ==
    << <<"/", <<"m", "d", "Y">> >>,
       <<"-", <<"Y", "m", "d">> >>,
       <<"-", <<"d", "m", "Y">> >>,
       <<"/", <<"d", "m", "Y">> >> >>

\* utils.py lines 35-45.  strptime of a float NaN is a TypeError.
validate_and_normalize_date(date_str) ==
    IF date_str = NONE \/ date_str = "" THEN "null"
    ELSE IF date_str = NAN THEN RAISES
    ELSE LET parses == { k \in 1..Len(date_formats) :
                            Strptime(date_str, date_formats[k][1], date_formats[k][2]) # NoDate }
         IN  IF parses = {} THEN RAISES
             ELSE LET first == CHOOSE k \in parses : \A o \in parses : k <= o
                  IN  Strftime(Strptime(date_str, date_formats[first][1], date_formats[first][2]))

\* utils.py lines 50-54
validate_and_normalize_names(value) ==
    IF ~IsStr(value) \/ value = "" THEN "null"
    ELSE Lower(Strip(DropChars(value, "-")))

\* utils.py lines 56-60
validate_and_normalize_string(value) ==
    IF ~IsStr(value) \/ value = "" THEN "null"
    ELSE Lower(Strip(value))

\* pd.to_datetime(text) followed by strftime('%m/%d/%Y') for one cell
\* (benefits_compare.py lines 178-179): an ISO date is read year first; any
\* other date of three numbers month first, and day first when that gives
\* no date; a missing cell stays missing (NaT, then NaN); a text that is no
\* date raises.
ToDatetimeStrftime(v) ==
    IF IsNull(v) THEN NAN
    ELSE LET sep == IF FindFrom(v, "/", 1) > 0 THEN "/" ELSE "-"
             iso == Strptime(v, "-", <<"Y", "m", "d">>)
             mdy == Strptime(v, sep, <<"m", "d", "Y">>)
             dmy == Strptime(v, sep, <<"d", "m", "Y">>)
         IN  IF iso # NoDate THEN Strftime(iso)
             ELSE IF mdy # NoDate THEN Strftime(mdy)
             ELSE IF dmy # NoDate THEN Strftime(dmy)
             ELSE RAISES


(***************************************************************************)
(* Tables.  A DataFrame is [columns, rows]: the column labels in order and *)
(* the rows, each the list of its cells in column order.  A Python dict is *)
(* the list of its <<key, value>> items in insertion order.                *)
(***************************************************************************)

HasColumn(df, c) == c \in Range(df.columns)

ColumnIndex(columns, c) == CHOOSE k \in 1..Len(columns) : columns[k] = c

\* df[c] of row r
Cell(df, r, c) == df.rows[r][ColumnIndex(df.columns, c)]

\* The cells of column c
Column(df, c) == [r \in 1..Len(df.rows) |-> Cell(df, r, c)]

\* df[c] = values: an existing column is overwritten in place, a new one is
\* added last.
SetColumn(df, c, values) ==
    IF HasColumn(df, c)
    THEN [df EXCEPT !.rows =
              [r \in 1..Len(df.rows) |->
                  [df.rows[r] EXCEPT ![ColumnIndex(df.columns, c)] = values[r]]]]
    ELSE [columns |-> Append(df.columns, c),
          rows |-> [r \in 1..Len(df.rows) |-> Append(df.rows[r], values[r])]]

\* df.replace([pd.NA, np.nan, float('inf'), float('-inf')], None)
ReplaceNaNByNone(df) ==
    [df EXCEPT !.rows =
        [r \in 1..Len(df.rows) |->
            [k \in 1..Len(df.rows[r]) |->
                IF df.rows[r][k] = NAN THEN NONE ELSE df.rows[r][k]]]]

\* df.to_dict(orient='records') of one row
RowDict(df, r) == [k \in 1..Len(df.columns) |-> <<df.columns[k], df.rows[r][k]>>]

DictKeys(d) == [k \in 1..Len(d) |-> d[k][1]]

DictHas(d, key) == \E k \in 1..Len(d) : d[k][1] = key

DictGet(d, key) == d[CHOOSE k \in 1..Len(d) : d[k][1] = key][2]

\* d[key] = value
DictSet(d, key, value) ==
    IF DictHas(d, key)
    THEN [k \in 1..Len(d) |-> IF d[k][1] = key THEN <<key, value>> ELSE d[k]]
    ELSE Append(d, <<key, value>>)

\* d.update(other)
\* d.update(other): the keys d has keep their place and take the value of
\* other, the keys d lacks follow in the order of other.
DictUpdate(d, other) ==
    LET New(item) == ~DictHas(d, item[1])
    IN  [k \in 1..Len(d) |->
            IF DictHas(other, d[k][1]) THEN <<d[k][1], DictGet(other, d[k][1])>> ELSE d[k]]
            \o SelectSeq(other, New)

\* d.pop(key, None)
DictPop(d, key) == LET Keep(item) == item[1] # key IN SelectSeq(d, Keep)

\* str.replace(old, new) of every occurrence
RECURSIVE ReplaceAll(_, _, _)
ReplaceAll(s, old, new) ==
    LET k == FindFrom(s, old, 1)
    IN  IF k = 0 THEN s
        ELSE SubSeq(s, 1, k - 1) \o new
                 \o ReplaceAll(SubSeq(s, k + Len(old), Len(s)), old, new)

\* str(v) as an f-string renders a cell
Str(v) == IF v = NONE THEN "None" ELSE IF v = NAN THEN "nan" ELSE v

\* Python's a != b on two cells: None equals None, NaN differs from NaN.
PyNe(a, b) == a = NAN \/ b = NAN \/ a # b

\* One element of pandas' Series != Series on object columns: a missing
\* cell on either side counts as different.
VecNe(a, b) == IsNull(a) \/ IsNull(b) \/ a # b

\* One element of pandas' Series == scalar: a missing value equals nothing.
VecEq(a, b) == ~IsNull(a) /\ ~IsNull(b) /\ a = b

\* Equality of join keys in DataFrame.merge: missing keys match each other.
KeyEq(a, b) == (IsNull(a) /\ IsNull(b)) \/ a = b

(***************************************************************************)
(* DataFrame.merge (pandas), as lines 232, 404 and 423 call it             *)
(***************************************************************************)

KeyOf(df, r, on) == [k \in 1..Len(on) |-> Cell(df, r, on[k])]

SameKey(ka, kb) == \A k \in 1..Len(ka) : KeyEq(ka[k], kb[k])

\* The order of two cells in a sorted join: texts in str order, a missing
\* cell after every text.
CellLess(a, b) ==
    IF IsNull(a) THEN FALSE ELSE IF IsNull(b) THEN TRUE ELSE StrLess(a, b)

\* Lexicographic order of key tuples, from component k on.
RECURSIVE KeyLessFrom(_, _, _)
KeyLessFrom(ka, kb, k) ==
    IF k > Len(ka) THEN FALSE
    ELSE IF KeyEq(ka[k], kb[k]) THEN KeyLessFrom(ka, kb, k + 1)
    ELSE CellLess(ka[k], kb[k])

KeyLess(ka, kb) == KeyLessFrom(ka, kb, 1)

\* The columns of the merged frame: the left columns, then the right columns
\* that are no keys; a column of both sides that is no key gets the side's
\* suffix.
MergedLeftColumns(left, right, on, suffixes) ==
    [k \in 1..Len(left.columns) |->
        IF left.columns[k] \notin Range(on) /\ HasColumn(right, left.columns[k])
        THEN left.columns[k] \o suffixes[1] ELSE left.columns[k]]

RightValueColumns(right, on) ==
    LET NoKey(c) == c \notin Range(on) IN SelectSeq(right.columns, NoKey)

MergedRightColumns(left, right, on, suffixes) ==
    LET Suffixed(cols) ==
            [k \in 1..Len(cols) |->
                IF HasColumn(left, cols[k]) THEN cols[k] \o suffixes[2] ELSE cols[k]]
    IN  Suffixed(RightValueColumns(right, on))

\* One row of the merged frame from left row l and right row r; 0 stands
\* for no row of that side.
MergedRow(left, right, on, l, r, indicator) ==
    LET LeftPart ==
            [k \in 1..Len(left.columns) |->
                IF l # 0 THEN left.rows[l][k]
                ELSE IF left.columns[k] \in Range(on)
                     THEN Cell(right, r, left.columns[k])
                     ELSE NAN]
        RightPart(rcols) ==
            [k \in 1..Len(rcols) |-> IF r # 0 THEN Cell(right, r, rcols[k]) ELSE NAN]
        Tag == IF l = 0 THEN "right_only" ELSE IF r = 0 THEN "left_only" ELSE "both"
    IN  LeftPart \o RightPart(RightValueColumns(right, on))
            \o (IF indicator THEN << Tag >> ELSE << >>)

\* The <<l, r>> row pairs of an inner join, in the order of the left rows.
InnerPairs(left, right, on) ==
    LET RECURSIVE FromLeft(_)
        FromLeft(l) ==
            IF l > Len(left.rows) THEN << >>
            ELSE LET Matches(r) == SameKey(KeyOf(left, l, on), KeyOf(right, r, on))
                     With(rs) == [k \in 1..Len(rs) |-> <<l, rs[k]>>]
                 IN  With(SelectSeq([r \in 1..Len(right.rows) |-> r], Matches))
                         \o FromLeft(l + 1)
    IN  FromLeft(1)

\* The distinct keys of both frames in order of first appearance, the left
\* frame first.
AppearanceKeys(left, right, on) ==
    LET Distinct(all) ==
            LET First(k) == \A m \in 1..(k - 1) : ~SameKey(all[m], all[k])
                Keys(firsts) == [k \in 1..Len(firsts) |-> all[firsts[k]]]
            IN  Keys(SelectSeq([k \in 1..Len(all) |-> k], First))
    IN  Distinct([l \in 1..Len(left.rows) |-> KeyOf(left, l, on)]
                     \o [r \in 1..Len(right.rows) |-> KeyOf(right, r, on)])

\* The keys sorted: each key at the place of its rank (the keys are
\* distinct).
SortKeys(keys) ==
    LET Rank(k) == Cardinality({ m \in 1..Len(keys) : KeyLess(keys[m], keys[k]) }) + 1
        Placed(rank) == [p \in 1..Len(keys) |-> keys[CHOOSE k \in 1..Len(keys) : rank[k] = p]]
    IN  Placed([k \in 1..Len(keys) |-> Rank(k)])

\* The <<l, r>> row pairs of a left join: the rows of the right frame that
\* match no left row are left out.
OuterPairs_LeftJoin(left, right, on, order) ==
    LET RECURSIVE FromLeft(_)
        FromLeft(l) ==
            IF l > Len(left.rows) THEN << >>
            ELSE LET Matches(r) == SameKey(KeyOf(left, l, on), KeyOf(right, r, on))
                     With(rs) == IF rs = << >> THEN << <<l, 0>> >>
                                 ELSE [k \in 1..Len(rs) |-> <<l, rs[k]>>]
                 IN  With(SelectSeq([r \in 1..Len(right.rows) |-> r], Matches))
                         \o FromLeft(l + 1)
    IN  FromLeft(1)

\* The <<l, r>> row pairs of an outer join.  The keys come in the order
\* `order` names: "sorted" (lexicographic, as documented) or "appearance"
\* (first appearance, left frame first, as pandas before 2.2 returns them).
OuterPairs(left, right, on, order) ==
    LET Group(ls, rs) ==
            IF rs = << >> THEN [a \in 1..Len(ls) |-> <<ls[a], 0>>]
            ELSE IF ls = << >> THEN [b \in 1..Len(rs) |-> <<0, rs[b]>>]
            ELSE [n \in 1..(Len(ls) * Len(rs)) |->
                     <<ls[((n - 1) \div Len(rs)) + 1], rs[((n - 1) % Len(rs)) + 1]>>]
        RECURSIVE FromKey(_, _)
        FromKey(keys, k) ==
            IF k > Len(keys) THEN << >>
            ELSE LET InL(l) == SameKey(KeyOf(left, l, on), keys[k])
                     InR(r) == SameKey(KeyOf(right, r, on), keys[k])
                 IN  Group(SelectSeq([l \in 1..Len(left.rows) |-> l], InL),
                           SelectSeq([r \in 1..Len(right.rows) |-> r], InR))
                         \o FromKey(keys, k + 1)
    IN  FromKey(IF order = "sorted" THEN SortKeys(AppearanceKeys(left, right, on))
                ELSE AppearanceKeys(left, right, on), 1)

\* left.merge(right, on=on, how=how, suffixes=suffixes, indicator=indicator)
Merge(left, right, on, how, suffixes, indicator, order) ==
    LET Rows(pairs) ==
            [k \in 1..Len(pairs) |->
                MergedRow(left, right, on, pairs[k][1], pairs[k][2], indicator)]
    IN  [columns |-> MergedLeftColumns(left, right, on, suffixes)
                         \o MergedRightColumns(left, right, on, suffixes)
                         \o (IF indicator THEN << "_merge" >> ELSE << >>),
         rows |-> Rows(IF how = "outer" THEN OuterPairs(left, right, on, order)
                       ELSE InnerPairs(left, right, on))]

(***************************************************************************)
(* Field Mapper (process_files, benefits_compare.py lines 104-131)         *)
(***************************************************************************)

\* dict.get(col, [col])[0]: the canonical name of a known header, the header
\* itself otherwise.
FieldsGet(fields, col) ==
    IF \E k \in 1..Len(fields) : fields[k][1] = col
    THEN fields[CHOOSE k \in 1..Len(fields) : fields[k][1] = col][2]
    ELSE col

\* line 106: mapped_columns_f1
MapEnrollmentColumns(columns_f1) ==
    [k \in 1..Len(columns_f1) |-> FieldsGet(enrollment_fields, columns_f1[k])]

\* line 130: mapped_columns_f2
MapPartnerColumns(cols) ==
    [k \in 1..Len(cols) |-> FieldsGet(partner_fields, cols[k])]

\* `col in partner_product_attrs` (line 118)
IsProductAttr(col) ==
    \E k \in 1..Len(partner_product_attrs) : partner_product_attrs[k][1] = col

\* partner_product_attrs[attr].replace("REPLACE", col) (line 119)
ReplaceProduct(attr, col) ==
    LET t == partner_product_attrs[
                 CHOOSE k \in 1..Len(partner_product_attrs) :
                     partner_product_attrs[k][1] = attr]
    IN  t[2] \o col \o t[3]

\* ForJ that skips a header that is no attribute header instead of ending the
\* run at it.
RECURSIVE ForJ_NoBreak(_, _, _)
ForJ_NoBreak(col, jj, acc) ==
    IF jj >= Len(acc.cols) THEN acc
    ELSE LET bound == [acc EXCEPT !.j = jj, !.jbound = TRUE]
         IN  IF IsProductAttr(acc.cols[jj + 1])
             THEN ForJ_NoBreak(col, jj + 1,
                       [bound EXCEPT
                           !.cols[jj + 1] = ReplaceProduct(acc.cols[jj + 1], col),
                           !.made = TRUE])
             ELSE ForJ_NoBreak(col, jj + 1, bound)

\* The for loop of lines 117-122 from Python index jj on, for the product
\* name col.  acc carries the header list, the loop variable j (jbound tells
\* whether Python has bound it) and replacement_made.
RECURSIVE ForJ(_, _, _)
ForJ(col, jj, acc) ==
    IF jj >= Len(acc.cols) THEN acc
    ELSE LET bound == [acc EXCEPT !.j = jj, !.jbound = TRUE]
         IN  IF IsProductAttr(acc.cols[jj + 1])
             THEN ForJ(col, jj + 1,
                       [bound EXCEPT
                           !.cols[jj + 1] = ReplaceProduct(acc.cols[jj + 1], col),
                           !.made = TRUE])
             ELSE bound

\* One iteration of the while loop of lines 113-128 (or its exit), on the
\* scan state st = [cols, i, j, jbound, pc].  `i = j` with j never bound
\* raises UnboundLocalError.
ScanStep(st) ==
    IF st.pc # "scan" THEN st
    ELSE IF ~(st.i < Len(st.cols)) THEN [st EXCEPT !.pc = "scanned"]
    ELSE LET col == st.cols[st.i + 1]
             \* lines 123-126, f the state the for loop leaves
             AfterFor(f) ==
                 IF ~f.made
                 THEN IF f.jbound
                      THEN [st EXCEPT !.cols = f.cols, !.j = f.j,
                                      !.jbound = TRUE, !.i = f.j]
                      ELSE [st EXCEPT !.pc = "raised"]
                 ELSE [st EXCEPT !.cols = f.cols, !.j = f.j,
                                 !.jbound = TRUE, !.i = st.i + 1]
         IN  IF col \in Range(partner_product_names)
             THEN AfterFor(ForJ(col, st.i + 1,
                                [cols |-> st.cols, j |-> st.j,
                                 jbound |-> st.jbound, made |-> FALSE]))
             ELSE [st EXCEPT !.i = st.i + 1]

\* The scan state at line 112 for the header list columns_f2 of line 110.
ScanStart(cols) ==
    [cols |-> cols, i |-> 0, j |-> 0, jbound |-> FALSE, pc |-> "scan"]

\* The while loop run for at most n iterations.
RECURSIVE ScanRun(_, _)
ScanRun(st, n) ==
    IF n = 0 \/ st.pc # "scan" THEN st ELSE ScanRun(ScanStep(st), n - 1)

\* Lines 109-130 as a whole.  A scan that ends does so within Len + 1
\* iterations (every iteration of an ending scan moves i forward); one
\* still scanning after that many never ends.
\* Result: [status: "ok" | "raised" | "hangs", columns].
PartnerHeaderMap(columns) ==
    LET Mapped(st) ==
            CASE st.pc = "scanned" ->
                     [status |-> "ok", columns |-> MapPartnerColumns(st.cols)]
              [] st.pc = "raised" -> [status |-> "raised", columns |-> <<>>]
              [] OTHER -> [status |-> "hangs", columns |-> <<>>]
    IN  Mapped(ScanRun(ScanStart(columns), Len(columns) + 1))


(***************************************************************************)
(* process_files (benefits_compare.py lines 71-150).  An upload is         *)
(* [filename, header, lines]: the file's name, the headers of its first    *)
(* line and its data lines, each the list of its cells ("" for an empty    *)
(* cell).                                                                  *)
(***************************************************************************)

\* The texts pd.read_csv reads as a missing cell (its default na_values).
NaValues ==
    { "", "#N/A", "#N/A N/A", "#NA", "-1.#IND", "-1.#QNAN", "-NaN", "-nan",
      "1.#IND", "1.#QNAN", "<NA>", "N/A", "NA", "NULL", "NaN", "None", "n/a",
      "nan", "null" }

\* pd.read_csv (lines 135, 143) of a header line and data lines
ReadCsv(header, lines) ==
    [columns |-> header,
     rows |-> [r \in 1..Len(lines) |->
                  [k \in 1..Len(lines[r]) |->
                      IF lines[r][k] \in NaValues THEN NAN ELSE lines[r][k]]]]

\* content.replace(first_line, ','.join(mapped_columns)) (lines 107, 131):
\* every line that is the header line is replaced, the first line included.
ReplaceHeaderLine(lines, header, mapped) ==
    [r \in 1..Len(lines) |-> IF lines[r] = header THEN mapped ELSE lines[r]]

NoFrame == [columns |-> << >>, rows |-> << >>]

Raised == [status |-> "raises", df_symetra |-> NoFrame, df_partner |-> NoFrame]

\* lines 134-148 for one file: a .csv name is read from the rewritten text;
\* a .xlsx name is read from the uploaded bytes, which are no spreadsheet
\* (the uploads of this model are text files); any other name is refused.
CanRead(filename) == EndsWith(filename, ".csv")

\* A role selection that takes the first upload as the primary source
\* whenever one of the two names starts with "Enrollment".
process_files_File1Primary(file1, file2) ==
    LET Read(enrollment, other, mapped_columns_f1, partner_map) ==
            IF partner_map.status # "ok"
            THEN [Raised EXCEPT !.status =
                      IF partner_map.status = "hangs" THEN "hangs" ELSE "raises"]
            ELSE IF ~CanRead(enrollment.filename) \/ ~CanRead(other.filename)
            THEN Raised
            ELSE [status |-> "ok",
                  df_symetra |->
                      ReadCsv(mapped_columns_f1,
                              ReplaceHeaderLine(enrollment.lines, enrollment.header,
                                                mapped_columns_f1)),
                  df_partner |->
                      ReadCsv(partner_map.columns,
                              ReplaceHeaderLine(other.lines, other.header,
                                                partner_map.columns))]
        Process(enrollment, other) ==
            Read(enrollment, other, MapEnrollmentColumns(enrollment.header),
                 PartnerHeaderMap(other.header))
    IN  IF \/ StartsWith(file1.filename, "Enrollment")
           \/ StartsWith(file2.filename, "Enrollment")
        THEN Process(file1, file2)
        ELSE Raised

\* process_files as a whole: [status, df_symetra, df_partner], status "ok",
\* "raises" or "hangs" (the scan of lines 112-128 never ends).
process_files(file1, file2) ==
    LET Read(enrollment, other, mapped_columns_f1, partner_map) ==
            IF partner_map.status # "ok"
            THEN [Raised EXCEPT !.status =
                      IF partner_map.status = "hangs" THEN "hangs" ELSE "raises"]
            ELSE IF ~CanRead(enrollment.filename) \/ ~CanRead(other.filename)
            THEN Raised
            ELSE [status |-> "ok",
                  df_symetra |->
                      ReadCsv(mapped_columns_f1,
                              ReplaceHeaderLine(enrollment.lines, enrollment.header,
                                                mapped_columns_f1)),
                  df_partner |->
                      ReadCsv(partner_map.columns,
                              ReplaceHeaderLine(other.lines, other.header,
                                                partner_map.columns))]
        Process(enrollment, other) ==
            Read(enrollment, other, MapEnrollmentColumns(enrollment.header),
                 PartnerHeaderMap(other.header))
    IN  IF StartsWith(file1.filename, "Enrollment") THEN Process(file1, file2)
        ELSE IF StartsWith(file2.filename, "Enrollment") THEN Process(file2, file1)
        ELSE Raised

(***************************************************************************)
(* cleanse_data (lines 152-184)                                            *)
(***************************************************************************)

\* Series.apply(f) / a Series method cell by cell
MapCells(values, F(_)) == [r \in 1..Len(values) |-> F(values[r])]

AnyRaises(values) == \E r \in 1..Len(values) : values[r] = RAISES

\* .str.lower() of one cell: a missing cell stays as it is
LowerCell(v) == IF IsNull(v) THEN v ELSE Lower(v)

\* Line 165: the two columns of full name split on ", ".  The .str accessor
\* needs a column of text (one with no text at all is a float column of
\* NaN, and an empty one splits into no column); the split must give
\* exactly two columns.
SplitFullName(df) ==
    LET Parts(names) ==
            [r \in 1..Len(names) |->
                IF IsNull(names[r]) THEN << >> ELSE Split(names[r], ", ")]
        Assign(names, parts) ==
            IF \/ \A r \in 1..Len(names) : IsNull(names[r])
               \/ \E r \in 1..Len(names) : Len(parts[r]) > 2
               \/ \A r \in 1..Len(names) : Len(parts[r]) < 2
            THEN [status |-> "raises", df |-> df]
            ELSE [status |-> "ok",
                  df |-> SetColumn(
                             SetColumn(df, "last name",
                                       [r \in 1..Len(names) |->
                                           IF IsNull(names[r]) THEN NAN ELSE parts[r][1]]),
                             "first name",
                             [r \in 1..Len(names) |->
                                 IF IsNull(names[r]) THEN NAN
                                 ELSE IF Len(parts[r]) = 2 THEN parts[r][2] ELSE NONE])]
        FromNames(names) == Assign(names, Parts(names))
    IN  FromNames(Column(df, "full name"))

\* Lines 173-182 for one frame (after the replace of line 170 / 171): the
\* names lower-cased, dob reformatted, gender normalized.  A column the
\* frame lacks is a KeyError.
CleanseColumns(df) ==
    LET Assign(dobs, genders) ==
            IF AnyRaises(dobs) \/ AnyRaises(genders)
            THEN [status |-> "raises", df |-> df]
            ELSE [status |-> "ok",
                  df |-> SetColumn(
                           SetColumn(
                             SetColumn(
                               SetColumn(df, "last name",
                                         MapCells(Column(df, "last name"), LowerCell)),
                               "first name",
                               MapCells(Column(df, "first name"), LowerCell)),
                             "dob", dobs),
                           "gender", genders)]
    IN  IF \E c \in {"last name", "first name", "dob", "gender"} : ~HasColumn(df, c)
        THEN [status |-> "raises", df |-> df]
        ELSE Assign(MapCells(Column(df, "dob"), ToDatetimeStrftime),
                    MapCells(Column(df, "gender"), normalize_gender))

cleanse_data(df_symetra, df_partner) ==
    LET Both(s, p) ==
            IF s.status # "ok" \/ p.status # "ok" THEN Raised
            ELSE [status |-> "ok", df_symetra |-> s.df, df_partner |-> p.df]
        AfterSplit(split) ==
            IF split.status # "ok" THEN Raised
            ELSE Both(CleanseColumns(ReplaceNaNByNone(split.df)),
                      CleanseColumns(ReplaceNaNByNone(df_partner)))
    IN  IF ~HasColumn(df_symetra, "full name") THEN Raised
        ELSE AfterSplit(SplitFullName(df_symetra))

(***************************************************************************)
(* validate_and_normalize_data (lines 186-218)                             *)
(***************************************************************************)

NormalizerTypes == {"string", "date", "currency", "name"}

Normalize(column_type, v) ==
    CASE column_type = "string" -> validate_and_normalize_string(v)
      [] column_type = "date" -> validate_and_normalize_date(v)
      [] column_type = "currency" -> normalize_and_validate_dollar_amount(v)
      [] column_type = "name" -> validate_and_normalize_names(v)

\* A pass that leaves out a typed column the frame lacks.
NormalizeEntry_SkipMissing(df, fields, k) ==
    LET column_name == fields[k][2]
        column_type == fields[k][3]
        Norm(v) == Normalize(column_type, v)
        Assign(values) ==
            IF AnyRaises(values) THEN [status |-> "raises", df |-> df]
            ELSE [status |-> "ok", df |-> SetColumn(df, column_name, values)]
    IN  IF column_type \notin NormalizerTypes \/ ~HasColumn(df, column_name)
        THEN [status |-> "ok", df |-> df]
        ELSE Assign(MapCells(Column(df, column_name), Norm))

\* One pass of a loop (lines 199-206, 209-216) for entry k of the
\* dictionary: [status, df].  A typed column the frame lacks is a KeyError.
NormalizeEntry(df, fields, k) ==
    LET column_name == fields[k][2]
        column_type == fields[k][3]
        Norm(v) == Normalize(column_type, v)
        Assign(values) ==
            IF AnyRaises(values) THEN [status |-> "raises", df |-> df]
            ELSE [status |-> "ok", df |-> SetColumn(df, column_name, values)]
    IN  IF column_type \notin NormalizerTypes THEN [status |-> "ok", df |-> df]
        ELSE IF ~HasColumn(df, column_name) THEN [status |-> "raises", df |-> df]
        ELSE Assign(MapCells(Column(df, column_name), Norm))

\* One of the two loops (lines 198-206, 208-216) over entries lo..hi of the
\* dictionary, in order: the passes of the first half, then of the second.
RECURSIVE NormalizeFrom(_, _, _, _)
NormalizeFrom(df, fields, lo, hi) ==
    LET Rest(first) ==
            IF first.status # "ok" THEN first
            ELSE NormalizeFrom(first.df, fields, ((lo + hi) \div 2) + 1, hi)
    IN  IF lo > hi THEN [status |-> "ok", df |-> df]
        ELSE IF lo = hi THEN NormalizeEntry(df, fields, lo)
        ELSE Rest(NormalizeFrom(df, fields, lo, (lo + hi) \div 2))

validate_and_normalize_data(df_symetra, df_partner) ==
    LET Both(p, s) ==
            IF s.status # "ok" THEN Raised
            ELSE [status |-> "ok", df_symetra |-> s.df, df_partner |-> p.df]
        AfterPartner(p) ==
            IF p.status # "ok" THEN Raised
            ELSE Both(p, NormalizeFrom(df_symetra, enrollment_fields, 1,
                                       Len(enrollment_fields)))
    IN  AfterPartner(NormalizeFrom(df_partner, partner_fields, 1, Len(partner_fields)))

(***************************************************************************)
(* merge_dataframes (lines 220-240)                                        *)
(***************************************************************************)

\* Line 238: the rename of every column
RenameMergedColumn(x) == ReplaceAll(ReplaceAll(x, "_x", "_partner"), "_y", "_symetra")

\* The rows of df whose _merge cell is tag, as a frame of the two name
\* columns (lines 235-236)
OnlyIn(df, tag) ==
    LET HasTag(r) == Cell(df, r, "_merge") = tag
        Names(rs) ==
            [k \in 1..Len(rs) |->
                <<Cell(df, rs[k], "first name"), Cell(df, rs[k], "last name")>>]
    IN  [columns |-> <<"first name", "last name">>,
         rows |-> Names(SelectSeq([r \in 1..Len(df.rows) |-> r], HasTag))]

\* [df_merged, df_only_in_enrollment, df_only_in_other]; order is the order
\* in which the outer join returns its keys.
merge_dataframes(df_symetra, df_partner, order) ==
    LET Result(merged) ==
            [df_merged |-> [columns |-> [k \in 1..Len(merged.columns) |->
                                            RenameMergedColumn(merged.columns[k])],
                            rows |-> merged.rows],
             df_only_in_enrollment |-> OnlyIn(merged, "left_only"),
             df_only_in_other |-> OnlyIn(merged, "right_only")]
    IN  Result(ReplaceNaNByNone(
                   Merge(df_symetra, df_partner, base_matching_attribs, "outer",
                         <<"_x", "_y">>, TRUE, order)))


(***************************************************************************)
(* The response: benefits_compare lines 385-435, generate_response lines   *)
(* 255-297.  An entry is a dict; general is the list response['general'].  *)
(***************************************************************************)

\* '; '.join(changes)
RECURSIVE Join(_, _)
Join(texts, sep) ==
    IF texts = << >> THEN ""
    ELSE IF Len(texts) = 1 THEN texts[1]
    ELSE texts[1] \o sep \o Join(Tail(texts), sep)

\* The loops of lines 387-393 and 395-401 (257-263, 265-271): one entry per
\* row of df_only, built from the first row of df_merged with the same first
\* and last name and the tag.  No such row is an IndexError.
\* [status, general].
UnmatchedEntries(df_merged, df_only, tag, change) ==
    LET Related(r) ==
            LET Same(m) == /\ VecEq(Cell(df_merged, m, "first name"), df_only.rows[r][1])
                           /\ VecEq(Cell(df_merged, m, "last name"), df_only.rows[r][2])
                           /\ Cell(df_merged, m, "_merge") = tag
            IN  SelectSeq([m \in 1..Len(df_merged.rows) |-> m], Same)
        Entries(related) ==
            IF \E r \in 1..Len(related) : related[r] = << >>
            THEN [status |-> "raises", general |-> << >>]
            ELSE [status |-> "ok",
                  general |->
                      [r \in 1..Len(related) |->
                          DictSet(DictUpdate(RowDict(df_only, r),
                                             RowDict(df_merged, related[r][1])),
                                  "change", change)]]
    IN  Entries([r \in 1..Len(df_only.rows) |-> Related(r)])

\* f"{col} changed from {a} to {b}"
ChangeText(col, a, b) == col \o " changed from " \o Str(a) \o " to " \o Str(b)

\* The entries of one diff pass over the frame df (lines 405-415, 425-435,
\* 274-282, 288-297): cols are the attributes compared, first and second
\* the suffixes of the two columns compared, in the order the summary names
\* their values.  A compared column the frame lacks is a KeyError, and so is
\* the selection by np.logical_or.reduce of no condition at all.
DiffEntries(df, cols, first, second) ==
    LET Differs(r) ==
            \E k \in 1..Len(cols) :
                VecNe(Cell(df, r, cols[k] \o first), Cell(df, r, cols[k] \o second))
        Changed(r, col) == PyNe(Cell(df, r, col \o first), Cell(df, r, col \o second))
        Texts(r, changed) ==
            [k \in 1..Len(changed) |->
                ChangeText(changed[k], Cell(df, r, changed[k] \o first),
                           Cell(df, r, changed[k] \o second))]
        Changes(r) == LET Is(col) == Changed(r, col) IN Texts(r, SelectSeq(cols, Is))
        Entries(rs) ==
            [k \in 1..Len(rs) |->
                DictSet(RowDict(df, rs[k]), "change", Join(Changes(rs[k]), "; "))]
    IN  IF \/ cols = << >>
           \/ \E k \in 1..Len(cols) :
                  ~HasColumn(df, cols[k] \o first) \/ ~HasColumn(df, cols[k] \o second)
        THEN [status |-> "raises", general |-> << >>]
        ELSE [status |-> "ok",
              general |-> Entries(SelectSeq([r \in 1..Len(df.rows) |-> r], Differs))]

\* lines 419 / 285: cols_to_check of a product
ColsToCheck(product) ==
    [k \in 1..Len(core_product_attribs) |-> product \o " " \o core_product_attribs[k]]

\* Chains passes: the entries of a then those of b, unless one raises.
Then(a, b) ==
    IF a.status # "ok" THEN a
    ELSE IF b.status # "ok" THEN b
    ELSE [status |-> "ok", general |-> a.general \o b.general]

\* The product loop of lines 418-435 from product k on, over the inner join
\* df of the two frames.
RECURSIVE ProductEntriesFrom(_, _, _, _)
ProductEntriesFrom(df, df_symetra, df_partner, k) ==
    LET InBoth(col) == HasColumn(df_symetra, col) /\ HasColumn(df_partner, col)
    IN  IF k > Len(core_product_names) THEN [status |-> "ok", general |-> << >>]
        ELSE Then(DiffEntries(df, SelectSeq(ColsToCheck(core_product_names[k]), InBoth),
                              "_enrollment", "_other"),
                  ProductEntriesFrom(df, df_symetra, df_partner, k + 1))

\* benefits_compare lines 385-435: response['general'] before consolidation
BuildResponse(df_symetra, df_partner, m) ==
    LET Diffs(inner) ==
            Then(DiffEntries(inner, extended_bases_attribs, "_enrollment", "_other"),
                 ProductEntriesFrom(inner, df_symetra, df_partner, 1))
    IN  Then(UnmatchedEntries(m.df_merged, m.df_only_in_enrollment, "left_only",
                              "Symetra only entry - remove"),
        Then(UnmatchedEntries(m.df_merged, m.df_only_in_other, "right_only",
                              "Partner only entry - add"),
             Diffs(Merge(df_symetra, df_partner, base_matching_attribs, "inner",
                         <<"_enrollment", "_other">>, FALSE, ""))))

\* The product loop of generate_response (lines 284-297) from product k on.
RECURSIVE GenerateProductEntriesFrom(_, _)
GenerateProductEntriesFrom(df_merged, k) ==
    LET Exists(col) == HasColumn(df_merged, col)
    IN  IF k > Len(core_product_names) THEN [status |-> "ok", general |-> << >>]
        ELSE Then(DiffEntries(df_merged,
                              SelectSeq(ColsToCheck(core_product_names[k]), Exists),
                              "_partner", "_symetra"),
                  GenerateProductEntriesFrom(df_merged, k + 1))

\* The rows of df_merged that line 273 keeps
MergedBoth(df_merged) ==
    LET Both(row) == row[ColumnIndex(df_merged.columns, "_merge")] = "both"
    IN  [df_merged EXCEPT !.rows = SelectSeq(df_merged.rows, Both)]

\* generate_response lines 257-282: the entries the function has built when
\* it reaches its product loop.
GenerateResponseEntries(m) ==
    Then(UnmatchedEntries(m.df_merged, m.df_only_in_enrollment, "left_only",
                          "Partner Enrollment file - add"),
    Then(UnmatchedEntries(m.df_merged, m.df_only_in_other, "right_only",
                          "Symetra Enrollment file - remove"),
         DiffEntries(MergedBoth(m.df_merged), extended_bases_attribs,
                     "_partner", "_symetra")))

\* generate_response as a whole (lines 242-299)
generate_response(m) ==
    Then(GenerateResponseEntries(m), GenerateProductEntriesFrom(m.df_merged, 1))

(***************************************************************************)
(* consolidate_and_order_response (lines 301-356)                          *)
(***************************************************************************)

\* line 318: the key of an entry
ConsolidationKey(item) == <<DictGet(item, "first name"), DictGet(item, "last name")>>

\* A consolidation in which every later entry of a key updates the stored
\* entry with all its fields, its change appended as in line 322.
Consolidate_Update(general) ==
    LET First(k) ==
            \A m \in 1..(k - 1) : ConsolidationKey(general[m]) # ConsolidationKey(general[k])
        RECURSIVE Merged(_, _)
        Merged(items, k) ==
            IF k = 1 THEN items[1]
            ELSE DictSet(DictUpdate(Merged(items, k - 1), items[k]), "change",
                         DictGet(Merged(items, k - 1), "change") \o "; "
                             \o DictGet(items[k], "change"))
        OfKey(key) ==
            LET HasKey(item) == ConsolidationKey(item) = key
                All(items) == Merged(items, Len(items))
            IN  All(SelectSeq(general, HasKey))
        Values(firsts) ==
            [k \in 1..Len(firsts) |-> OfKey(ConsolidationKey(general[firsts[k]]))]
    IN  Values(SelectSeq([k \in 1..Len(general) |-> k], First))

\* lines 316-325: consolidated_response after the loop, as the list of its
\* values.  The first entry of a key is stored under it (line 320), and the
\* change of every later entry of the key is appended to the change of the
\* stored entry after '; ' (line 322); the keys are in the order of their
\* first entries.
Consolidate(general) ==
    LET First(k) ==
            \A m \in 1..(k - 1) : ConsolidationKey(general[m]) # ConsolidationKey(general[k])
        ChangesOf(key) ==
            LET HasKey(item) == ConsolidationKey(item) = key
                Of(items) == [k \in 1..Len(items) |-> DictGet(items[k], "change")]
            IN  Of(SelectSeq(general, HasKey))
        Values(firsts) ==
            [k \in 1..Len(firsts) |->
                DictSet(general[firsts[k]], "change",
                        Join(ChangesOf(ConsolidationKey(general[firsts[k]])), "; "))]
    IN  Values(SelectSeq([k \in 1..Len(general) |-> k], First))

\* lines 328-335: change moved to just after last name
MoveChange(item) ==
    LET Reordered(change_value, rest, last_name_index) ==
            SubSeq(rest, 1, last_name_index) \o << <<"change", change_value>> >>
                \o SubSeq(rest, last_name_index + 1, Len(rest))
        After(change_value, rest) ==
            Reordered(change_value, rest,
                      CHOOSE k \in 1..Len(rest) : rest[k][1] = "last name")
    IN  After(DictGet(item, "change"), DictPop(item, "change"))

\* lines 338-341
RECURSIVE DropColumns(_, _)
DropColumns(item, cols) ==
    IF cols = << >> THEN item ELSE DropColumns(DictPop(item, Head(cols)), Tail(cols))

\* re.compile(pattern).match(col) for the patterns of sort_match_columns, a
\* literal followed by ".*": col begins with the literal.
RegexMatch(pattern, col) == StartsWith(col, SubSeq(pattern, 1, Len(pattern) - 2))

\* sorted(texts): each text at the place of its rank, equal texts in their
\* order in the list (the sort is stable).
SortedByRank(texts) ==
    LET Rank(k) == Cardinality({ m \in 1..Len(texts) :
                                    \/ StrLess(texts[m], texts[k])
                                    \/ texts[m] = texts[k] /\ m < k }) + 1
        Placed(rank) ==
            [p \in 1..Len(texts) |-> texts[CHOOSE k \in 1..Len(texts) : rank[k] = p]]
    IN  Placed([k \in 1..Len(texts) |-> Rank(k)])

\* The column labels of the frames the two dictionaries give: a canonical
\* name, and a name of both dictionaries with a suffix of a merge.
ColumnLabels ==
    LET names(fields) == { fields[k][2] : k \in 1..Len(fields) }
    IN  names(enrollment_fields) \cup names(partner_fields)
            \cup { c \o s : c \in names(enrollment_fields) \cap names(partner_fields),
                            s \in {"_enrollment", "_other", "_partner", "_symetra"} }

\* The number of column labels before each column label in the order of str.
ColumnLabelRank ==
    [c \in ColumnLabels |-> Cardinality({ d \in ColumnLabels : StrLess(d, c) })]

\* sorted() of all the column labels.
SortedColumnLabels ==
    [k \in 1..Cardinality(ColumnLabels) |->
        CHOOSE c \in ColumnLabels : ColumnLabelRank[c] = k - 1]

\* The texts left in the order they come in.
Sorted_Appearance(texts) == texts

\* sorted(texts).  Distinct column labels sort into the order they have
\* among all column labels.
Sorted(texts) ==
    IF Range(texts) \subseteq ColumnLabels /\ Cardinality(Range(texts)) = Len(texts)
    THEN LET Listed(c) == c \in Range(texts) IN SelectSeq(SortedColumnLabels, Listed)
    ELSE SortedByRank(texts)

\* The list without the later occurrences of its elements (the key order of
\* a dict built from it)
FirstOccurrences(texts) ==
    LET First(k) == \A m \in 1..(k - 1) : texts[m] # texts[k]
        Of(firsts) == [k \in 1..Len(firsts) |-> texts[firsts[k]]]
    IN  Of(SelectSeq([k \in 1..Len(texts) |-> k], First))

\* A reordering that puts the remaining columns in the reverse of the order
\* they have in the entry instead of sorting them.
ReorderColumns_Reversing(item, fixed_columns, match_patterns) ==
    LET RECURSIVE Matched(_, _)
        Matched(keys, p) ==
            IF p > Len(match_patterns) THEN << >>
            ELSE LET Hit(col) == RegexMatch(match_patterns[p], col)
                 IN  SelectSeq(keys, Hit) \o Matched(keys, p + 1)
        InItem(col) == DictHas(item, col)
        Ordered(ordered) == [k \in 1..Len(ordered) |-> <<ordered[k], DictGet(item, ordered[k])>>]
        Backward(texts) == [k \in 1..Len(texts) |-> texts[Len(texts) + 1 - k]]
        Final(keys, matched_columns) ==
            LET Remaining(col) == col \notin Range(fixed_columns \o matched_columns)
            IN  Ordered(FirstOccurrences(
                    SelectSeq(fixed_columns \o matched_columns
                                  \o Backward(SelectSeq(keys, Remaining)), InItem)))
        FromKeys(keys) == Final(keys, Matched(keys, 1))
    IN  FromKeys(DictKeys(item))

\* A reordering whose final order is the fixed and the matched columns
\* only.
ReorderColumns_WithoutRemaining(item, fixed_columns, match_patterns) ==
    LET RECURSIVE Matched(_, _)
        Matched(keys, p) ==
            IF p > Len(match_patterns) THEN << >>
            ELSE LET Hit(col) == RegexMatch(match_patterns[p], col)
                 IN  SelectSeq(keys, Hit) \o Matched(keys, p + 1)
        InItem(col) == DictHas(item, col)
        Ordered(ordered) == [k \in 1..Len(ordered) |-> <<ordered[k], DictGet(item, ordered[k])>>]
        Final(keys, matched_columns) ==
            Ordered(FirstOccurrences(SelectSeq(fixed_columns \o matched_columns, InItem)))
        FromKeys(keys) == Final(keys, Matched(keys, 1))
    IN  FromKeys(DictKeys(item))

\* lines 345-354 for one entry
ReorderColumns(item, fixed_columns, match_patterns) ==
    LET RECURSIVE Matched(_, _)
        Matched(keys, p) ==
            IF p > Len(match_patterns) THEN << >>
            ELSE LET Hit(col) == RegexMatch(match_patterns[p], col)
                 IN  SelectSeq(keys, Hit) \o Matched(keys, p + 1)
        InItem(col) == DictHas(item, col)
        Ordered(ordered) == [k \in 1..Len(ordered) |-> <<ordered[k], DictGet(item, ordered[k])>>]
        Final(keys, matched_columns) ==
            LET Remaining(col) == col \notin Range(fixed_columns \o matched_columns)
            IN  Ordered(FirstOccurrences(
                    SelectSeq(fixed_columns \o matched_columns
                                  \o Sorted(SelectSeq(keys, Remaining)), InItem)))
        FromKeys(keys) == Final(keys, Matched(keys, 1))
    IN  FromKeys(DictKeys(item))

\* consolidate_and_order_response(response, sort_fixed_columns,
\* sort_match_columns, drop_columns): the new response['general']
consolidate_and_order_response(general, fixed_columns, match_patterns, drop) ==
    LET Order(dropped) ==
            IF fixed_columns # << >> /\ match_patterns # << >>
            THEN ReorderColumns(dropped, fixed_columns, match_patterns)
            ELSE dropped
        Drop(moved) == Order(IF drop # << >> THEN DropColumns(moved, drop) ELSE moved)
        Each(consolidated) ==
            [k \in 1..Len(consolidated) |-> Drop(MoveChange(consolidated[k]))]
    IN  Each(Consolidate(general))


(***************************************************************************)
(* The uploads and form fields the request specification draws from       *)
(***************************************************************************)

\* Most data lines of one upload.
MaxRows == 2

\* A form field the request does not carry.
ABSENT == "<absent>"

\* The raw header of the canonical column in a dictionary.
RawHeader(fields, canonical) ==
    fields[CHOOSE k \in 1..Len(fields) : fields[k][2] = canonical][1]

TypeOf(fields, canonical) ==
    IF \E k \in 1..Len(fields) : fields[k][2] = canonical
    THEN fields[CHOOSE k \in 1..Len(fields) : fields[k][2] = canonical][3]
    ELSE "None"

\* A primary export with the columns the comparison reads: the person and
\* the class of every known product.
PrimaryHeader ==
    <<"Name", "Birth Date", "Gender", "Annual Salary">>
        \o [k \in 1..Len(core_product_names) |->
               RawHeader(enrollment_fields, core_product_names[k] \o " class")]

\* A partner export with the columns the comparison reads, the class of
\* every product in the positional layout: the product's own column, then
\* its attribute column.
RECURSIVE PositionalColumns(_, _)
PositionalColumns(products, attrs) ==
    IF products = << >> THEN << >>
    ELSE << Head(products) >> \o attrs \o PositionalColumns(Tail(products), attrs)

PartnerHeader ==
    <<"Last Name", "First Name", "Date of Birth", "Gender", "Salary">>
        \o PositionalColumns(partner_product_names, <<"Class">>)

\* The exports with every column of their header dictionary.
PrimaryFullHeader ==
    LET NoSplitName(h) == h \notin {"Last Name", "First Name"}
    IN  SelectSeq([k \in 1..Len(enrollment_fields) |-> enrollment_fields[k][1]], NoSplitName)

PartnerFullHeader ==
    <<"Status", "Action", "Last Name", "First Name", "Middle Initial", "Gender",
      "Date of Birth", "Date of Hire", "Part time to Full Time Effective Date",
      "Salary", "Salary Effective Date", "Division", "Change Date",
      "Spouse Date of Birth">>
        \o PositionalColumns(partner_product_names,
                             [k \in 1..Len(partner_product_attrs) |->
                                 partner_product_attrs[k][1]])

\* The cell of a column that the person records below do not describe.
DefaultCell(type, date) ==
    CASE type = "date" -> date
      [] type = "currency" -> "100"
      [] OTHER -> "A"

\* The people of the primary export: name, dob, gender, salary and the class
\* of the first known product.
PrimaryPeople ==
    { [name |-> "Smith, Jo", dob |-> "01/02/1990", gender |-> "F", salary |-> "100", class |-> "A"],
      [name |-> "Smith, Jo", dob |-> "03/04/1991", gender |-> "F", salary |-> "100", class |-> "A"],
      [name |-> "Lee, Al", dob |-> "01/02/1990", gender |-> "M", salary |-> "200", class |-> "A"],
      [name |-> "Smith, Jo", dob |-> "", gender |-> "F", salary |-> "100", class |-> "A"] }

\* The people of the partner export; hire is the Date of Hire cell.
PartnerPeople ==
    { [last |-> "Smith", first |-> "Jo", dob |-> "1990-01-02", gender |-> "Female",
       salary |-> "100", class |-> "A", hire |-> "2020-01-01"],
      [last |-> "Smith", first |-> "Jo", dob |-> "1991-03-04", gender |-> "M",
       salary |-> "150", class |-> "B", hire |-> "2020-01-01"],
      [last |-> "Smith", first |-> "Jo", dob |-> "", gender |-> "Female",
       salary |-> "100", class |-> "A", hire |-> "2020-01-01"] }

\* Partner people whose export carries a cell the validation pass refuses.
PartnerBadPeople ==
    { [last |-> "Smith", first |-> "Jo", dob |-> "1990-01-02", gender |-> "Female",
       salary |-> "100", class |-> "A", hire |-> "unknown"],
      [last |-> "Smith", first |-> "Jo", dob |-> "1990-01-02", gender |-> "Female",
       salary |-> "1.2.3", class |-> "A", hire |-> "2020-01-01"] }

PrimaryLine(person, header) ==
    [k \in 1..Len(header) |->
        CASE header[k] = "Name" -> person.name
          [] header[k] = "Birth Date" -> person.dob
          [] header[k] = "Gender" -> person.gender
          [] header[k] = "Annual Salary" -> person.salary
          [] header[k] = "Basic Employee Life Class #" -> person.class
          [] OTHER -> DefaultCell(TypeOf(enrollment_fields,
                                         FieldsGet(enrollment_fields, header[k])),
                                  "01/01/2020")]

\* The canonical names of a partner header row, the row itself when its
\* scan does not end.
PartnerCanonical(header) ==
    LET Names(map) == IF map.status = "ok" THEN map.columns ELSE header
    IN  Names(PartnerHeaderMap(header))

\* The line of a person under a partner header row of canonical names
\* canonical.
PartnerLine(person, canonical) ==
    [k \in 1..Len(canonical) |->
        CASE canonical[k] = "last name" -> person.last
          [] canonical[k] = "first name" -> person.first
          [] canonical[k] = "dob" -> person.dob
          [] canonical[k] = "gender" -> person.gender
          [] canonical[k] = "salary" -> person.salary
          [] canonical[k] = "date of hire" -> person.hire
          [] canonical[k] = "basic employee life class" -> person.class
          [] OTHER -> DefaultCell(TypeOf(partner_fields, canonical[k]), "2020-01-01")]

RECURSIVE SeqsUpTo(_, _)
SeqsUpTo(S, n) ==
    IF n = 0 THEN { << >> }
    ELSE SeqsUpTo(S, n - 1)
             \cup { Append(s, x) : s \in { t \in SeqsUpTo(S, n - 1) : Len(t) = n - 1 },
                                   x \in S }

PrimaryUpload(filename, header, people) ==
    [filename |-> filename, header |-> header,
     lines |-> [k \in 1..Len(people) |-> PrimaryLine(people[k], header)]]

PartnerUpload(filename, header, people) ==
    LET Lines(canonical) == [k \in 1..Len(people) |-> PartnerLine(people[k], canonical)]
    IN  [filename |-> filename, header |-> header,
         lines |-> Lines(PartnerCanonical(header))]

\* The header without its column h.
Without(header, h) == LET Other(x) == x # h IN SelectSeq(header, Other)

\* Primary headers: the one above, and it short of a column the code reads.
PrimaryHeaders ==
    { PrimaryHeader, Without(PrimaryHeader, "Name"), Without(PrimaryHeader, "Gender"),
      Without(PrimaryHeader, "Annual Salary"),
      Without(PrimaryHeader, "Long Term Disability Class #") }

\* Partner headers: the one above; it followed by a product name as its last
\* header; a product name as the only product column; it short of a column.
PartnerHeaders ==
    { PartnerHeader, Append(PartnerHeader, "VSTD"),
      <<"Last Name", "First Name", "Date of Birth", "Gender", "Salary", "Basic Life">>,
      Without(PartnerHeader, "Date of Birth") }

FileNames == { "Enrollment_2024.csv", "partner.csv", "Enrollment_2024.xlsx", "partner.txt" }

FormValues == { "true", "false", ABSENT }

Smith1990 == CHOOSE p \in PrimaryPeople : p.name = "Smith, Jo" /\ p.dob = "01/02/1990"

SmithJan2 == CHOOSE p \in PartnerPeople : p.dob = "1990-01-02"

\* The partner row born 1990-02-01, the first of February.
SmithFeb1 == [SmithJan2 EXCEPT !.dob = "1990-02-01"]

SmithNoDob == CHOOSE p \in PrimaryPeople : p.dob = ""

\* The same individual in both exports, the salary cell empty in both.
SmithNoSalary == [Smith1990 EXCEPT !.salary = ""]

SmithJan2NoSalary == [SmithJan2 EXCEPT !.salary = ""]


(***************************************************************************)
(* State                                                                   *)
(***************************************************************************)

VARIABLES
    role,               \* header mapping: which source's mapping is applied
    pass,               \* header mapping: 1, or 2 for the re-application
    scan_in,            \* header mapping: the header row this pass began with
    columns_f2,         \* process_files: columns_f2 (columns_f1 for primary)
    i,                  \* process_files: i
    j,                  \* process_files: j
    jbound,             \* process_files: whether j has been assigned
    hpc,                \* header mapping: position in the code
    mapped_columns,     \* process_files: mapped_columns_f1 / mapped_columns_f2
    file1,              \* benefits_compare: the first upload
    file2,              \* benefits_compare: the second upload
    form_data,          \* benefits_compare: the form fields of the request
    pc,                 \* benefits_compare: position in the code
    df_symetra,         \* benefits_compare: df_symetra
    df_partner,         \* benefits_compare: df_partner
    merged,             \* what merge_dataframes returned
    response,           \* response['general'] before consolidation
    generated,          \* what generate_response built from merged
    result,             \* what the request returned
    norm_fn,            \* normalizers: the normalizer called
    norm_arg,           \* normalizers: its argument
    norm_ret,           \* normalizers: what the call returned
    norm_pc,            \* normalizers: position of the call
    requests,           \* concurrent requests: the locals of each handler
    module_tables       \* concurrent requests: the module-level lists of config.py

scanvars == <<role, pass, scan_in, columns_f2, i, j, jbound, hpc, mapped_columns>>

reqvars == <<file1, file2, form_data, pc, df_symetra, df_partner, merged, response,
             generated, result>>

normvars == <<norm_fn, norm_arg, norm_ret, norm_pc>>

concvars == <<requests, module_tables>>

vars == <<scanvars, reqvars, normvars, concvars>>

NoUpload == [filename |-> "", header |-> << >>, lines |-> << >>]

NoMerge == [df_merged |-> NoFrame, df_only_in_enrollment |-> NoFrame,
            df_only_in_other |-> NoFrame]

NoResult == [status_code |-> 0, detail |-> "", general |-> << >>]

NotGenerated == [status |-> "", general |-> << >>]

\* line 443
InternalServerError ==
    [status_code |-> 500, detail |-> "Internal Server Error", general |-> << >>]

\* No request is being served.
NoRequest ==
    /\ file1 = NoUpload
    /\ file2 = NoUpload
    /\ form_data = [validateData |-> ABSENT, normalizeData |-> ABSENT]
    /\ pc = "idle"
    /\ df_symetra = NoFrame
    /\ df_partner = NoFrame
    /\ merged = NoMerge
    /\ response = << >>
    /\ generated = NotGenerated
    /\ result = NoResult

\* No header row is being mapped on its own.
NoMapping ==
    /\ role = "none"
    /\ pass = 0
    /\ scan_in = << >>
    /\ columns_f2 = << >>
    /\ i = 0
    /\ j = 0
    /\ jbound = FALSE
    /\ hpc = "idle"
    /\ mapped_columns = << >>

\* No normalizer is being called.
NoCall ==
    /\ norm_fn = ""
    /\ norm_arg = ""
    /\ norm_ret = ""
    /\ norm_pc = "idle"

\* The module-level lists the handler hands to
\* consolidate_and_order_response (line 438), as config.py defines them.
ConfiguredTables ==
    [sort_fixed_columns |-> sort_fixed_columns,
     sort_match_columns |-> sort_match_columns,
     drop_columns |-> drop_columns]

\* No two requests are being served side by side.
NoConcurrency ==
    /\ requests = << >>
    /\ module_tables = ConfiguredTables


(***************************************************************************)
(* Header-mapping specification: process_files lines 104-131 applied to a  *)
(* header row, then applied again to its own output.                       *)
(***************************************************************************)

StartMapping(r, p, row) ==
    /\ role = r
    /\ pass = p
    /\ scan_in = row
    /\ columns_f2 = row
    /\ i = 0
    /\ j = 0
    /\ jbound = FALSE
    /\ hpc = IF r = "primary" THEN "split" ELSE "scan"
    /\ mapped_columns = <<>>

InitScan ==
    /\ \E r \in {"primary", "partner"}, row \in HeaderRows : StartMapping(r, 1, row)
    /\ NoRequest
    /\ NoCall
    /\ NoConcurrency

\* line 106
MapPrimary ==
    /\ role = "primary"
    /\ hpc = "split"
    /\ mapped_columns' = MapEnrollmentColumns(columns_f2)
    /\ hpc' = "mapped"
    /\ UNCHANGED <<role, pass, scan_in, columns_f2, i, j, jbound, reqvars, normvars, concvars>>

\* lines 113-128: one iteration of the while loop, or its exit
ScanIter ==
    /\ role = "partner"
    /\ hpc = "scan"
    /\ \E n \in { ScanStep([cols |-> columns_f2, i |-> i, j |-> j,
                               jbound |-> jbound, pc |-> hpc]) } :
           /\ columns_f2' = n.cols
           /\ i' = n.i
           /\ j' = n.j
           /\ jbound' = n.jbound
           /\ hpc' = n.pc
    /\ UNCHANGED <<role, pass, scan_in, mapped_columns, reqvars, normvars, concvars>>

\* line 130
MapPartner ==
    /\ role = "partner"
    /\ hpc = "scanned"
    /\ mapped_columns' = MapPartnerColumns(columns_f2)
    /\ hpc' = "mapped"
    /\ UNCHANGED <<role, pass, scan_in, columns_f2, i, j, jbound, reqvars, normvars, concvars>>

\* The same mapping applied to the header row it has just produced.
Reapply ==
    /\ hpc = "mapped"
    /\ pass = 1
    /\ pass' = 2
    /\ scan_in' = mapped_columns
    /\ columns_f2' = mapped_columns
    /\ i' = 0
    /\ j' = 0
    /\ jbound' = FALSE
    /\ hpc' = IF role = "primary" THEN "split" ELSE "scan"
    /\ mapped_columns' = <<>>
    /\ UNCHANGED <<role, reqvars, normvars, concvars>>

NextScan == MapPrimary \/ ScanIter \/ MapPartner \/ Reapply

SpecScan == InitScan /\ [][NextScan]_vars

\* The Python interpreter runs the loop on: an enabled iteration is taken.
SpecScanFair == SpecScan /\ WF_vars(NextScan)


(***************************************************************************)
(* Request specification: benefits_compare (lines 358-443) serving one     *)
(* request, and generate_response (lines 242-299) applied to the merge.    *)
(***************************************************************************)

Receive(f1, f2, validateData, normalizeData) ==
    /\ file1 = f1
    /\ file2 = f2
    /\ form_data = [validateData |-> validateData, normalizeData |-> normalizeData]
    /\ pc = "received"
    /\ df_symetra = NoFrame
    /\ df_partner = NoFrame
    /\ merged = NoMerge
    /\ response = << >>
    /\ generated = NotGenerated
    /\ result = NoResult

\* Both exports with the columns the comparison reads, any people.
InitTables ==
    \E ps \in SeqsUpTo(PrimaryPeople, MaxRows), qs \in SeqsUpTo(PartnerPeople, MaxRows) :
        Receive(PrimaryUpload("Enrollment_2024.csv", PrimaryHeader, ps),
                PartnerUpload("partner.csv", PartnerHeader, qs), "false", "false")

\* The primary row Smith, Jo, 01/02/1990 and the partner row Smith, Jo,
\* 1990-02-01.
InitFebruary ==
    Receive(PrimaryUpload("Enrollment_2024.csv", PrimaryHeader, << Smith1990 >>),
            PartnerUpload("partner.csv", PartnerHeader, << SmithFeb1 >>), "false", "false")

\* The partner export uploaded first.
InitPartnerFirst ==
    \E ps \in SeqsUpTo(PrimaryPeople, 1), qs \in SeqsUpTo(PartnerPeople, 1) :
        Receive(PartnerUpload("partner.csv", PartnerHeader, qs),
                PrimaryUpload("Enrollment_2024.csv", PrimaryHeader, ps), "false", "false")

\* Any file names and form fields.
InitNames ==
    \E n1 \in FileNames, n2 \in FileNames, v \in FormValues, n \in FormValues :
        Receive(PrimaryUpload(n1, PrimaryHeader, << Smith1990 >>),
                PartnerUpload(n2, PartnerHeader, << SmithJan2 >>), v, n)

\* Header rows short of a column, or ending in a product name.
InitHeaders ==
    \E h1 \in PrimaryHeaders, h2 \in PartnerHeaders :
        Receive(PrimaryUpload("Enrollment_2024.csv", h1, << Smith1990 >>),
                PartnerUpload("partner.csv", h2, << SmithJan2 >>), "false", "false")

\* Both exports with every column of their dictionary, validation asked for
\* or not.
InitFull ==
    \E p \in { Smith1990, SmithNoDob }, q \in { SmithJan2 } \cup PartnerBadPeople,
       f \in { <<"true", "false">>, <<"false", "true">>, <<"false", "false">> } :
        Receive(PrimaryUpload("Enrollment_2024.csv", PrimaryFullHeader, << p >>),
                PartnerUpload("partner.csv", PartnerFullHeader, << q >>), f[1], f[2])

\* One individual in both exports, without a salary in either.
InitNoSalary ==
    \E p \in { SmithNoSalary }, q \in { SmithJan2NoSalary }, h1 \in { PrimaryHeader, PrimaryFullHeader },
       f \in { "true", "false" } :
        Receive(PrimaryUpload("Enrollment_2024.csv", h1, << p >>),
                PartnerUpload("partner.csv",
                              IF h1 = PrimaryHeader THEN PartnerHeader ELSE PartnerFullHeader,
                              << q >>), f, f)

\* An export in which the header line comes again as a line of data, as in
\* two exports pasted one after the other.
InitRepeatedHeader ==
    \E again \in { "primary", "partner" } :
        Receive([PrimaryUpload("Enrollment_2024.csv", PrimaryHeader, << Smith1990 >>)
                    EXCEPT !.lines = IF again = "primary" THEN Append(@, PrimaryHeader) ELSE @],
                [PartnerUpload("partner.csv", PartnerHeader, << SmithJan2 >>)
                    EXCEPT !.lines = IF again = "partner" THEN Append(@, PartnerHeader) ELSE @],
                "false", "false")

Init ==
    /\ NoMapping
    /\ NoCall
    /\ NoConcurrency
    /\ \/ InitTables \/ InitFebruary \/ InitPartnerFirst \/ InitNames
       \/ InitHeaders \/ InitFull \/ InitNoSalary \/ InitRepeatedHeader

\* What a step of the handler that gave r leaves: the frames and the next
\* position, or the exception caught at line 442, or a scan that never ends.
Step(r, next) ==
    IF r.status = "ok"
    THEN /\ pc' = next
         /\ df_symetra' = r.df_symetra
         /\ df_partner' = r.df_partner
         /\ UNCHANGED result
    ELSE /\ pc' = IF r.status = "hangs" THEN "hung" ELSE "error"
         /\ result' = IF r.status = "hangs" THEN result ELSE InternalServerError
         /\ UNCHANGED <<df_symetra, df_partner>>

\* line 377
ProcessFiles ==
    /\ pc = "received"
    /\ Step(process_files(file1, file2), "processed")
    /\ UNCHANGED <<scanvars, normvars, concvars, file1, file2, form_data, merged, response, generated>>

\* line 378
CleanseData ==
    /\ pc = "processed"
    /\ Step(cleanse_data(df_symetra, df_partner), "cleansed")
    /\ UNCHANGED <<scanvars, normvars, concvars, file1, file2, form_data, merged, response, generated>>

\* A handler that reads validateData only: normalizeData does not ask for
\* the pass.
ValidateAndNormalize_ValidateOnly ==
    /\ pc = "cleansed"
    /\ IF form_data.validateData = ABSENT
       THEN Step(Raised, "validated")
       ELSE IF form_data.validateData = "true"
       THEN Step(validate_and_normalize_data(df_symetra, df_partner), "validated")
       ELSE Step([status |-> "ok", df_symetra |-> df_symetra, df_partner |-> df_partner],
                 "validated")
    /\ UNCHANGED <<scanvars, normvars, concvars, file1, file2, form_data, merged, response, generated>>

\* lines 380-381: a form field the request lacks is a KeyError; the second
\* field is read only when the first is not 'true'.
ValidateAndNormalize ==
    /\ pc = "cleansed"
    /\ IF \/ form_data.validateData = ABSENT
          \/ form_data.validateData # "true" /\ form_data.normalizeData = ABSENT
       THEN Step(Raised, "validated")
       ELSE IF form_data.validateData = "true" \/ form_data.normalizeData = "true"
       THEN Step(validate_and_normalize_data(df_symetra, df_partner), "validated")
       ELSE Step([status |-> "ok", df_symetra |-> df_symetra, df_partner |-> df_partner],
                 "validated")
    /\ UNCHANGED <<scanvars, normvars, concvars, file1, file2, form_data, merged, response, generated>>

\* line 383; the outer join returns its keys sorted or in order of
\* appearance, by the version of pandas.
MergeDataframes ==
    /\ pc = "validated"
    /\ \E order \in {"sorted", "appearance"} :
           merged' = merge_dataframes(df_symetra, df_partner, order)
    /\ pc' = "merged"
    /\ UNCHANGED <<scanvars, normvars, concvars, file1, file2, form_data, df_symetra, df_partner, response,
                   generated, result>>

\* lines 385-435
BuildGeneral ==
    /\ pc = "merged"
    /\ \E r \in { BuildResponse(df_symetra, df_partner, merged) } :
           IF r.status = "ok"
           THEN /\ response' = r.general
                /\ pc' = "built"
                /\ UNCHANGED result
           ELSE /\ pc' = "error"
                /\ result' = InternalServerError
                /\ UNCHANGED response
    /\ UNCHANGED <<scanvars, normvars, concvars, file1, file2, form_data, df_symetra, df_partner, merged,
                   generated>>

\* lines 438-440
ConsolidateAndReturn ==
    /\ pc = "built"
    /\ result' = [status_code |-> 200, detail |-> "",
                  general |-> consolidate_and_order_response(
                                  response, sort_fixed_columns, sort_match_columns,
                                  drop_columns)]
    /\ pc' = "done"
    /\ UNCHANGED <<scanvars, normvars, concvars, file1, file2, form_data, df_symetra, df_partner, merged,
                   response, generated>>

\* generate_response(df_merged, df_only_in_enrollment, df_only_in_other) on
\* what merge_dataframes returned: the entries it builds before its product
\* loop, and how the call ends.
GenerateResponse ==
    /\ pc = "merged"
    /\ generated' = [status |-> generate_response(merged).status,
                     general |-> GenerateResponseEntries(merged).general]
    /\ pc' = "generated"
    /\ UNCHANGED <<scanvars, normvars, concvars, file1, file2, form_data, df_symetra, df_partner, merged,
                   response, result>>

Next ==
    \/ ProcessFiles
    \/ CleanseData
    \/ ValidateAndNormalize
    \/ MergeDataframes
    \/ BuildGeneral
    \/ ConsolidateAndReturn
    \/ GenerateResponse

Spec == Init /\ [][Next]_vars

(***************************************************************************)
(* Normalizer specification: one call of a normalizer of utils.py          *)
(***************************************************************************)

Normalizers == {"gender", "currency", "date", "name", "string"}

\* The arguments the calls are made with: empty and missing values, amounts,
\* dates in and out of the accepted formats, genders, names.
NormalizerInputs ==
    { "", NONE, NAN, "abc", "$1,234.5", "1.2.3", "100", "12.345", "$ 7",
      "2024-03-07", "03/07/2024", "07-03-2024", "13/07/2024", "07/13/2024",
      "2024-13-07", "31-12-2024", "02/30/2024", "3/7/2024", "2024/03/07",
      "F", "Female", " m ", "X", "Smith-Jones", " Jo ", "unknown" }

InitNorm ==
    /\ NoMapping
    /\ NoRequest
    /\ NoConcurrency
    /\ norm_fn \in Normalizers
    /\ norm_arg \in NormalizerInputs
    /\ norm_ret = ""
    /\ norm_pc = "called"

\* The call ends: it returns v, or raises.
Return(v) ==
    /\ norm_ret' = v
    /\ norm_pc' = IF v = RAISES THEN "raised" ELSE "returned"
    /\ UNCHANGED <<norm_fn, norm_arg, scanvars, reqvars, concvars>>

\* utils.py lines 4-16
NormalizeGender ==
    /\ norm_pc = "called"
    /\ norm_fn = "gender"
    /\ Return(normalize_gender(norm_arg))

\* utils.py lines 22-33
NormalizeCurrency ==
    /\ norm_pc = "called"
    /\ norm_fn = "currency"
    /\ Return(normalize_and_validate_dollar_amount(norm_arg))

\* utils.py lines 35-45
NormalizeDate ==
    /\ norm_pc = "called"
    /\ norm_fn = "date"
    /\ Return(validate_and_normalize_date(norm_arg))

\* utils.py lines 50-54
NormalizeName ==
    /\ norm_pc = "called"
    /\ norm_fn = "name"
    /\ Return(validate_and_normalize_names(norm_arg))

\* utils.py lines 56-60
NormalizeString ==
    /\ norm_pc = "called"
    /\ norm_fn = "string"
    /\ Return(validate_and_normalize_string(norm_arg))

NextNorm ==
    \/ NormalizeGender
    \/ NormalizeCurrency
    \/ NormalizeDate
    \/ NormalizeName
    \/ NormalizeString

SpecNorm == InitNorm /\ [][NextNorm]_vars

(***************************************************************************)
(* benefits_compare as a function of its request (lines 375-443)           *)
(***************************************************************************)

\* What the handler returns for the uploads and the form of a request when
\* it runs alone: the report, or the generic error; nothing when the header
\* scan never ends.  order is the order in which the outer join returns its
\* keys, tables are the lists handed to consolidate_and_order_response.
benefits_compare(f1, f2, form, order, tables) ==
    LET Built(b) ==
            IF b.status # "ok" THEN InternalServerError
            ELSE [status_code |-> 200, detail |-> "",
                  general |-> consolidate_and_order_response(
                                  b.general, tables.sort_fixed_columns,
                                  tables.sort_match_columns, tables.drop_columns)]
        Validated(v) ==
            IF v.status # "ok" THEN InternalServerError
            ELSE Built(BuildResponse(v.df_symetra, v.df_partner,
                                      merge_dataframes(v.df_symetra, v.df_partner, order)))
        Cleansed(c) ==
            IF c.status # "ok" THEN InternalServerError
            ELSE IF \/ form.validateData = ABSENT
                    \/ form.validateData # "true" /\ form.normalizeData = ABSENT
            THEN InternalServerError
            ELSE IF form.validateData = "true" \/ form.normalizeData = "true"
            THEN Validated(validate_and_normalize_data(c.df_symetra, c.df_partner))
            ELSE Validated(c)
        Processed(p) ==
            IF p.status = "hangs" THEN NoResult
            ELSE IF p.status # "ok" THEN InternalServerError
            ELSE Cleansed(cleanse_data(p.df_symetra, p.df_partner))
    IN  Processed(process_files(f1, f2))

(***************************************************************************)
(* Two-request specification: two calls of the handler side by side        *)
(***************************************************************************)

\* The partner row of Jo Smith with another gender and salary.
SmithRaise == [SmithJan2 EXCEPT !.gender = "M", !.salary = "150"]

\* The requests served side by side, uploads and form fields: one with
\* differing values, one with unmatched rows, one with the partner export
\* uploaded first, one whose partner export has no known extension.
ConcurrentRequests ==
    { << PrimaryUpload("Enrollment_2024.csv", PrimaryFullHeader, << Smith1990 >>),
         PartnerUpload("partner.csv", PartnerFullHeader, << SmithRaise >>), "true", "true" >>,
      << PrimaryUpload("Enrollment_2024.csv", PrimaryHeader, << Smith1990, SmithNoDob >>),
         PartnerUpload("partner.csv", PartnerHeader, << SmithFeb1 >>), "false", "false" >>,
      << PartnerUpload("partner.csv", PartnerHeader, << SmithRaise >>),
         PrimaryUpload("Enrollment_2024.csv", PrimaryHeader, << Smith1990 >>),
         "false", "false" >>,
      << PrimaryUpload("Enrollment_2024.csv", PrimaryFullHeader, << Smith1990 >>),
         PartnerUpload("partner.txt", PartnerFullHeader, << SmithJan2 >>), "true", "true" >> }

\* The locals of a handler that has received its request.
Received(u) ==
    [file1 |-> u[1], file2 |-> u[2],
     form_data |-> [validateData |-> u[3], normalizeData |-> u[4]],
     pc |-> "received", df_symetra |-> NoFrame, df_partner |-> NoFrame,
     merged |-> NoMerge, response |-> << >>, result |-> NoResult]

InitTwo ==
    /\ NoMapping
    /\ NoRequest
    /\ NoCall
    /\ module_tables = ConfiguredTables
    /\ \E u1 \in ConcurrentRequests, u2 \in ConcurrentRequests :
           requests = << Received(u1), Received(u2) >>

\* The locals of handler q after a step that gave res.
Stepped(q, res, next) ==
    IF res.status = "ok"
    THEN [q EXCEPT !.pc = next, !.df_symetra = res.df_symetra, !.df_partner = res.df_partner]
    ELSE [q EXCEPT !.pc = "error", !.result = InternalServerError]

\* Handler r goes on with the locals q; the module-level lists are not
\* written.
Serve(r, q) ==
    /\ requests' = [requests EXCEPT ![r] = q]
    /\ UNCHANGED <<module_tables, scanvars, reqvars, normvars>>

\* line 377
ReqProcessFiles ==
    \E r \in DOMAIN requests :
        /\ requests[r].pc = "received"
        /\ \E res \in { process_files(requests[r].file1, requests[r].file2) } :
               Serve(r, Stepped(requests[r], res, "processed"))

\* line 378
ReqCleanseData ==
    \E r \in DOMAIN requests :
        /\ requests[r].pc = "processed"
        /\ \E res \in { cleanse_data(requests[r].df_symetra, requests[r].df_partner) } :
               Serve(r, Stepped(requests[r], res, "cleansed"))

\* lines 380-381
ReqValidateAndNormalize ==
    \E r \in DOMAIN requests :
        /\ requests[r].pc = "cleansed"
        /\ \E res \in { IF \/ requests[r].form_data.validateData = ABSENT
                           \/ /\ requests[r].form_data.validateData # "true"
                              /\ requests[r].form_data.normalizeData = ABSENT
                        THEN Raised
                        ELSE IF \/ requests[r].form_data.validateData = "true"
                                \/ requests[r].form_data.normalizeData = "true"
                        THEN validate_and_normalize_data(requests[r].df_symetra,
                                                         requests[r].df_partner)
                        ELSE [status |-> "ok", df_symetra |-> requests[r].df_symetra,
                              df_partner |-> requests[r].df_partner] } :
               Serve(r, Stepped(requests[r], res, "validated"))

\* line 383
ReqMergeDataframes ==
    \E r \in DOMAIN requests :
        /\ requests[r].pc = "validated"
        /\ \E order \in {"sorted", "appearance"} :
               Serve(r, [requests[r] EXCEPT
                            !.pc = "merged",
                            !.merged = merge_dataframes(requests[r].df_symetra,
                                                        requests[r].df_partner, order)])

\* lines 385-435
ReqBuildGeneral ==
    \E r \in DOMAIN requests :
        /\ requests[r].pc = "merged"
        /\ \E b \in { BuildResponse(requests[r].df_symetra, requests[r].df_partner,
                                    requests[r].merged) } :
               Serve(r, IF b.status = "ok"
                        THEN [requests[r] EXCEPT !.pc = "built", !.response = b.general]
                        ELSE [requests[r] EXCEPT !.pc = "error",
                                                 !.result = InternalServerError])

\* The columns of the entry that the patterns match, pattern by pattern
\* (lines 347-350).
MatchedColumns(item, match_patterns) ==
    LET RECURSIVE Matched(_, _)
        Matched(keys, p) ==
            IF p > Len(match_patterns) THEN << >>
            ELSE LET Hit(col) == RegexMatch(match_patterns[p], col)
                 IN  SelectSeq(keys, Hit) \o Matched(keys, p + 1)
    IN  Matched(DictKeys(item), 1)

\* A consolidation that builds the final column order in the list it was
\* handed (fixed_columns += matched_columns): the module-level list grows by
\* the matched columns of every record.
ReqConsolidateAndReturn_InPlace ==
    \E r \in DOMAIN requests :
        /\ requests[r].pc = "built"
        /\ \E general \in { consolidate_and_order_response(
                                requests[r].response, module_tables.sort_fixed_columns,
                                module_tables.sort_match_columns,
                                module_tables.drop_columns) } :
               /\ requests' = [requests EXCEPT ![r] =
                      [requests[r] EXCEPT
                          !.pc = "done",
                          !.result = [status_code |-> 200, detail |-> "",
                                      general |-> general]]]
               /\ module_tables' =
                      [module_tables EXCEPT !.sort_fixed_columns =
                          IF general = << >> THEN @
                          ELSE @ \o MatchedColumns(general[1],
                                                   module_tables.sort_match_columns)]
        /\ UNCHANGED <<scanvars, reqvars, normvars>>

\* lines 438-440: the module-level lists are handed to the consolidation,
\* which reads them and builds the final order in a list of its own (line
\* 351).
ReqConsolidateAndReturn ==
    \E r \in DOMAIN requests :
        /\ requests[r].pc = "built"
        /\ \E general \in { consolidate_and_order_response(
                                requests[r].response, module_tables.sort_fixed_columns,
                                module_tables.sort_match_columns,
                                module_tables.drop_columns) } :
               Serve(r, [requests[r] EXCEPT
                            !.pc = "done",
                            !.result = [status_code |-> 200, detail |-> "",
                                        general |-> general]])

NextTwo ==
    \/ ReqProcessFiles
    \/ ReqCleanseData
    \/ ReqValidateAndNormalize
    \/ ReqMergeDataframes
    \/ ReqBuildGeneral
    \/ ReqConsolidateAndReturn

SpecTwo == InitTwo /\ [][NextTwo]_vars

(***************************************************************************)
(* Header mapping: claims                                                  *)
(***************************************************************************)

\* C1: the positional product scan terminates for every header row: no
\* iteration fails, none moves the scan index i backward, and a scan that
\* has begun reaches the end of its loop.
C1_ScanTerminates ==
    /\ [](hpc # "raised")
    /\ [][ScanIter => i' >= i]_vars
    /\ [](hpc = "scan" => <>(hpc = "scanned"))

\* The attribute part of a rewritten header, per attribute header.
CanonicalAttribute(h) ==
    CASE h = "Class" -> "class"
      [] h = "Class Change Effective Date" -> "change effective date"
      [] h = "Coverage Amount" -> "coverage amount"
      [] h = "Coverage Effective Date" -> "coverage date"
      [] h = "Termination Date" -> "termination date"

AttributeHeaders ==
    { "Class", "Class Change Effective Date", "Coverage Amount",
      "Coverage Effective Date", "Termination Date" }

\* Position q holds a product name and positions q+1..p hold attribute
\* headers only: p lies in the unbroken run that follows the product at q.
InRunOf(row, q, p) ==
    /\ q < p
    /\ row[q] \in Range(partner_product_names)
    /\ \A r \in (q + 1)..p : row[r] \in AttributeHeaders

\* What the scan is to make of position p of the header row.
Relabelled(row, p) ==
    IF \E q \in 1..Len(row) : InRunOf(row, q, p)
    THEN row[CHOOSE q \in 1..Len(row) : InRunOf(row, q, p)]
             \o " " \o CanonicalAttribute(row[p])
    ELSE row[p]

CanonicalNames(fields) == { fields[k][2] : k \in 1..Len(fields) }

HeaderKeys(fields) == { fields[k][1] : k \in 1..Len(fields) }

\* C8: header canonicalization is idempotent for both source roles: the
\* mapping applied to a header row that is its own output gives that row
\* again, and no canonical name of either dictionary is a key of a header
\* dictionary or a partner product name.
C8_CanonicalizationIdempotent ==
    /\ (hpc = "mapped" /\ pass = 2) => mapped_columns = scan_in
    /\ (CanonicalNames(enrollment_fields) \cup CanonicalNames(partner_fields))
           \cap (HeaderKeys(enrollment_fields) \cup HeaderKeys(partner_fields)
                     \cup Range(partner_product_names)) = {}

\* The partner mapping has been applied a second time, to a row holding a
\* canonical name that only the scan followed by the dictionary produces.
C8_Witness ==
    /\ role = "partner"
    /\ hpc = "mapped"
    /\ pass = 2
    /\ "basic employee life class" \in Range(scan_in)
    /\ "last name" \in Range(scan_in)

(***************************************************************************)
(* The request: claims                                                     *)
(***************************************************************************)

\* A key component, every missing value taken as one.
KeyCell(v) == IF IsNull(v) THEN NONE ELSE v

\* The identity key of an entry or record: (last name, first name, dob).
IdentityOf(item) ==
    << KeyCell(DictGet(item, "last name")), KeyCell(DictGet(item, "first name")),
       KeyCell(DictGet(item, "dob")) >>

\* C2: consolidation merges entries into one record if and only if they
\* share the identity key (last name, first name, dob): the report holds at
\* most one record per identity key, and every identity key that has an
\* entry has a record of its own.
C2_ConsolidationByIdentity ==
    pc = "done" =>
        /\ \A a, b \in 1..Len(result.general) :
               IdentityOf(result.general[a]) = IdentityOf(result.general[b]) => a = b
        /\ \A k \in 1..Len(response) :
               \E a \in 1..Len(result.general) :
                   IdentityOf(result.general[a]) = IdentityOf(response[k])
        /\ Len(result.general)
               = Cardinality({ IdentityOf(response[k]) : k \in 1..Len(response) })

\* The identity key of row r of a table.
RowKey(df, r) ==
    [k \in 1..Len(base_matching_attribs) |-> KeyCell(Cell(df, r, base_matching_attribs[k]))]

RowKeys(df) == { RowKey(df, r) : r \in 1..Len(df.rows) }

NoDuplicateKeys(df) == Cardinality(RowKeys(df)) = Len(df.rows)

\* The rows of a join result in one partition.
Tagged(df, tag) == { r \in 1..Len(df.rows) : Cell(df, r, "_merge") = tag }

\* The join has been made.
Joined == pc \in {"merged", "built", "generated", "done"}

\* C3: for a primary table of N rows and a partner table of M rows without
\* duplicate identity keys and with K identity keys in common, the outer
\* join has N-K primary-only rows, M-K partner-only rows and K matched rows;
\* every row of the join is in exactly one of the three partitions.
C3_JoinCompleteness ==
    (Joined /\ NoDuplicateKeys(df_symetra) /\ NoDuplicateKeys(df_partner)) =>
        /\ Cardinality(Tagged(merged.df_merged, "left_only"))
               = Len(df_symetra.rows) - Cardinality(RowKeys(df_symetra) \cap RowKeys(df_partner))
        /\ Cardinality(Tagged(merged.df_merged, "right_only"))
               = Len(df_partner.rows) - Cardinality(RowKeys(df_symetra) \cap RowKeys(df_partner))
        /\ Cardinality(Tagged(merged.df_merged, "both"))
               = Cardinality(RowKeys(df_symetra) \cap RowKeys(df_partner))
        /\ \A r \in 1..Len(merged.df_merged.rows) :
               Cell(merged.df_merged, r, "_merge") \in {"left_only", "right_only", "both"}
        /\ Len(merged.df_only_in_enrollment.rows)
               = Cardinality(Tagged(merged.df_merged, "left_only"))
        /\ Len(merged.df_only_in_other.rows)
               = Cardinality(Tagged(merged.df_merged, "right_only"))

\* Two rows on either side, one identity key in common: each of the three
\* partitions has a row.
C3_Witness ==
    /\ pc = "merged"
    /\ NoDuplicateKeys(df_symetra)
    /\ NoDuplicateKeys(df_partner)
    /\ Len(df_symetra.rows) = 2
    /\ Len(df_partner.rows) = 2
    /\ Cardinality(RowKeys(df_symetra) \cap RowKeys(df_partner)) = 1

\* The summaries joined in the change field of an entry or record.
Summaries(item) == Split(DictGet(item, "change"), "; ")

\* The entry or record reports its individual as added, as removed, with a
\* change of gender.
ReportsAdded(item) ==
    \E k \in 1..Len(Summaries(item)) : EndsWith(Summaries(item)[k], "- add")

ReportsRemoved(item) ==
    \E k \in 1..Len(Summaries(item)) : EndsWith(Summaries(item)[k], "- remove")

ReportsGenderChange(item) ==
    \E k \in 1..Len(Summaries(item)) : StartsWith(Summaries(item)[k], "gender changed")

\* The request holds the primary row Smith, Jo, 01/02/1990, F and the
\* partner row q, and no other row.
SmithScenario(q) ==
    \E f \in {file1, file2}, g \in {file1, file2} :
        /\ f.lines = << PrimaryLine(Smith1990, f.header) >>
        /\ g.lines = << PartnerLine(q, PartnerCanonical(g.header)) >>

\* The two rows of the request are matched, neither is reported added or
\* removed, and no entry reports a change of gender.
SmithMatched(q) ==
    /\ (SmithScenario(q) /\ Joined) =>
           /\ Len(merged.df_merged.rows) = 1
           /\ Tagged(merged.df_merged, "both") = {1}
    /\ (SmithScenario(q) /\ pc \in {"built", "done"}) =>
           \A k \in 1..Len(response) :
               /\ ~ReportsRemoved(response[k])
               /\ ~ReportsAdded(response[k])
               /\ ~ReportsGenderChange(response[k])
    /\ (SmithScenario(q) /\ pc = "done") =>
           \A k \in 1..Len(result.general) :
               /\ ~ReportsRemoved(result.general[k])
               /\ ~ReportsAdded(result.general[k])
               /\ ~ReportsGenderChange(result.general[k])

\* C4, as stated: the primary row Smith, Jo, 01/02/1990, F and the partner
\* row Smith, Jo, 1990-02-01, Female are matched on identity, neither is
\* reported added or removed, and no gender change is reported.
C4_SmithFebruaryFirstMatched == SmithMatched(SmithFeb1)

\* C4, amended: the primary row Smith, Jo, 01/02/1990, F and the partner
\* row Smith, Jo, 1990-01-02, Female (the second of January in both, as the
\* month comes first in a date with slashes) are matched on identity,
\* neither is reported added or removed, and no gender change is reported.
C4_SmithJanuarySecondMatched == SmithMatched(SmithJan2)

\* The request of the two rows has been answered with its report.
C4_Witness ==
    /\ SmithScenario(SmithJan2)
    /\ pc = "done"
    /\ result.status_code = 200
    /\ Tagged(merged.df_merged, "both") = {1}

\* The summaries of the entries of an identity, in the order of the entries.
SummariesOf(id) ==
    LET Has(item) == IdentityOf(item) = id
        Of(items) == [k \in 1..Len(items) |-> DictGet(items[k], "change")]
    IN  Of(SelectSeq(response, Has))

\* C5: the change field of the consolidated record of an identity is the
\* summaries of all entries of that identity joined with "; " in the order
\* of the entries: none is lost, doubled or out of order.
C5_ConsolidationJoinsSummaries ==
    pc = "done" =>
        \A k \in 1..Len(response) :
            \E a \in 1..Len(result.general) :
                /\ IdentityOf(result.general[a]) = IdentityOf(response[k])
                /\ DictGet(result.general[a], "change")
                       = Join(SummariesOf(IdentityOf(response[k])), "; ")

\* The entries built for the rows of one partition.
EntriesOf(general, tag) ==
    LET Is(item) == DictHas(item, "_merge") /\ DictGet(item, "_merge") = tag
    IN  SelectSeq(general, Is)

\* In a list of entries, a primary-only row is classified removed and a
\* partner-only row added, never the other way round.
PrimaryIsAuthoritative(general) ==
    /\ \A k \in 1..Len(EntriesOf(general, "left_only")) :
           /\ ReportsRemoved(EntriesOf(general, "left_only")[k])
           /\ ~ReportsAdded(EntriesOf(general, "left_only")[k])
    /\ \A k \in 1..Len(EntriesOf(general, "right_only")) :
           /\ ReportsAdded(EntriesOf(general, "right_only")[k])
           /\ ~ReportsRemoved(EntriesOf(general, "right_only")[k])

\* C6: every unmatched row yields exactly one entry, classified removed
\* when the row is of the primary source only and added when it is of the
\* partner source only, in the entries the endpoint builds and in those
\* generate_response builds.
C6_UnmatchedClassification ==
    /\ pc \in {"built", "done"} =>
           /\ Len(EntriesOf(response, "left_only"))
                  = Cardinality(Tagged(merged.df_merged, "left_only"))
           /\ Len(EntriesOf(response, "right_only"))
                  = Cardinality(Tagged(merged.df_merged, "right_only"))
           /\ PrimaryIsAuthoritative(response)
    /\ (pc = "generated" /\ GenerateResponseEntries(merged).status = "ok") =>
           /\ Len(EntriesOf(generated.general, "left_only"))
                  = Cardinality(Tagged(merged.df_merged, "left_only"))
           /\ Len(EntriesOf(generated.general, "right_only"))
                  = Cardinality(Tagged(merged.df_merged, "right_only"))
           /\ PrimaryIsAuthoritative(generated.general)

\* The file the request takes as the primary source (lines 86-95).
PrimaryFile == IF StartsWith(file1.filename, "Enrollment") THEN file1 ELSE file2

\* The form asks for the validate/normalize pass (line 380).
ValidationAsked ==
    \/ form_data.validateData = "true"
    \/ form_data.validateData # ABSENT /\ form_data.normalizeData = "true"

\* Some cell of an upload is no date and no amount.
BadCell ==
    \E f \in {file1, file2} :
        \E r \in 1..Len(f.lines) :
            \E k \in 1..Len(f.lines[r]) : f.lines[r][k] \in {"unknown", "1.2.3"}

\* A stage of the request fails: a file of an unsupported type, no file
\* named as the primary one, no full-name column, a cell the validation
\* pass refuses, or a form field the request lacks.
StageFails ==
    \/ \E f \in {file1, file2} :
           ~EndsWith(f.filename, ".csv") /\ ~EndsWith(f.filename, ".xlsx")
    \/ ~StartsWith(file1.filename, "Enrollment") /\ ~StartsWith(file2.filename, "Enrollment")
    \/ "Name" \notin Range(PrimaryFile.header)
    \/ ValidationAsked /\ BadCell
    \/ form_data.validateData = ABSENT
    \/ form_data.validateData # "true" /\ form_data.normalizeData = ABSENT

\* C9: the report is all-or-nothing: a request that fails returns the one
\* generic internal error and no report, no request holds entries in its
\* answer before it has completed, and a request one of whose stages fails
\* never completes with a report.
C9_AllOrNothing ==
    /\ pc = "error" => result = InternalServerError
    /\ pc # "done" => (result.general = << >> /\ result.status_code # 200)
    /\ StageFails => pc # "done"

\* A request whose tables were read and cleansed has failed on a bad cell
\* in the validation pass.
C9_Witness ==
    /\ pc = "error"
    /\ result = InternalServerError
    /\ ValidationAsked
    /\ BadCell
    /\ df_symetra # NoFrame
    /\ df_partner # NoFrame

\* Some row of an upload has no date of birth.
RowMissingDob ==
    \E f \in {file1, file2} :
        \E r \in 1..Len(f.lines) :
            \E k \in 1..Len(f.header) :
                f.header[k] \in {"Birth Date", "Date of Birth"} /\ f.lines[r][k] = ""

\* C10: a row that lacks a component of the identity key fails the
\* request: no request with a row without a date of birth completes.
C10_MissingKeyFailsRequest == RowMissingDob => pc # "done"

(***************************************************************************)
(* The normalizers: claims                                                 *)
(***************************************************************************)

\* C11: the currency normalizer fails on non-numeric input: "abc" raises a
\* validation failure and returns no value, "" gives "null" and "$1,234.5"
\* gives "1234.50".
C11_CurrencyRejectsNonNumeric ==
    (norm_fn = "currency" /\ norm_pc # "called") =>
        /\ norm_arg = "abc" => norm_pc = "raised"
        /\ norm_arg = "" => (norm_pc = "returned" /\ norm_ret = "null")
        /\ norm_arg = "$1,234.5" => (norm_pc = "returned" /\ norm_ret = "1234.50")

\* The formats in the order the date normalizer is to try them: MM/DD/YYYY,
\* YYYY-MM-DD, DD-MM-YYYY, DD/MM/YYYY.
FormatPrecedence ==
    << <<"/", <<"m", "d", "Y">> >>,
       <<"-", <<"Y", "m", "d">> >>,
       <<"-", <<"d", "m", "Y">> >>,
       <<"/", <<"d", "m", "Y">> >> >>

\* The text is a date in format k of the precedence list.
ParsesAs(s, k) == Strptime(s, FormatPrecedence[k][1], FormatPrecedence[k][2]) # NoDate

\* The MM/DD/YYYY string of the text read in the first format it parses in.
FirstReading(s) ==
    LET Read(k) == Strftime(Strptime(s, FormatPrecedence[k][1], FormatPrecedence[k][2]))
    IN  Read(CHOOSE k \in 1..4 : ParsesAs(s, k) /\ \A m \in 1..(k - 1) : ~ParsesAs(s, m))

\* C12: the date normalizer tries MM/DD/YYYY, YYYY-MM-DD, DD-MM-YYYY and
\* DD/MM/YYYY in that order: a text that parses in some format gives the
\* MM/DD/YYYY string of the date read in the first such format, a date with
\* slashes whose first number is at most 12 is read month first,
\* "2024-03-07", "03/07/2024" and "07-03-2024" all give "03/07/2024", and a
\* text that parses in no format is a validation failure.
C12_DateFormatPrecedence ==
    (norm_fn = "date" /\ norm_pc # "called" /\ IsStr(norm_arg) /\ norm_arg # "") =>
        /\ (\A k \in 1..4 : ~ParsesAs(norm_arg, k)) => norm_pc = "raised"
        /\ (\E k \in 1..4 : ParsesAs(norm_arg, k)) =>
               (norm_pc = "returned" /\ norm_ret = FirstReading(norm_arg))
        /\ norm_arg \in {"2024-03-07", "03/07/2024", "07-03-2024"} =>
               norm_ret = "03/07/2024"
        /\ (/\ norm_pc = "returned"
            /\ Len(Split(norm_arg, "/")) = 3
            /\ DigitsToInt(Split(norm_arg, "/")[1]) <= 12) =>
               SubSeq(norm_ret, 1, 2) = IntToDigits(DigitsToInt(Split(norm_arg, "/")[1]), 2)

\* The date normalizer has read a date in its third format.
C12_Witness ==
    /\ norm_fn = "date"
    /\ norm_pc = "returned"
    /\ norm_arg = "07-03-2024"
    /\ norm_ret = "03/07/2024"

\* C13: each normalizer returns "null" for an empty or absent input: the
\* empty string, None and the missing value the table reader produces; for
\* any other input the gender normalizer returns a canonical gender.
C13_NormalizerTotality ==
    norm_pc \notin {"called", "idle"} =>
        /\ norm_arg \in {"", NONE, NAN} => (norm_pc = "returned" /\ norm_ret = "null")
        /\ (norm_fn = "gender" /\ norm_pc = "returned") =>
               norm_ret \in {"male", "female", "other", "null"}

(***************************************************************************)
(* Consolidation: claims                                                   *)
(***************************************************************************)

\* The place of a text in a list that holds it.
PlaceIn(texts, x) == CHOOSE k \in 1..Len(texts) : texts[k] = x

\* The class of a column of a consolidated record: 1 for a fixed leading
\* column, 2 for a column that matches a configured pattern, 3 for the rest.
ColumnClass(col) ==
    IF col \in Range(sort_fixed_columns) THEN 1
    ELSE IF StartsWith(col, "salary") \/ StartsWith(col, "gender") THEN 2
    ELSE 3

\* The columns of the record are placed as configured.
PlacedAsConfigured(keys) ==
    /\ \A p, q \in 1..Len(keys) : p < q =>
           /\ ColumnClass(keys[p]) <= ColumnClass(keys[q])
           /\ (ColumnClass(keys[p]) = 1 /\ ColumnClass(keys[q]) = 1) =>
                  PlaceIn(sort_fixed_columns, keys[p]) < PlaceIn(sort_fixed_columns, keys[q])
           /\ (ColumnClass(keys[p]) = 3 /\ ColumnClass(keys[q]) = 3) =>
                  StrLess(keys[p], keys[q])
    /\ ("change" \in Range(keys) /\ "last name" \in Range(keys)) =>
           PlaceIn(keys, "change") = PlaceIn(keys, "last name") + 1

\* C14: in every record of the returned report the fixed leading columns
\* come first in their configured order with change right after last name,
\* then the columns that match the configured patterns, then the remaining
\* columns in alphabetical order.
C14_ColumnPlacement ==
    pc = "done" =>
        \A k \in 1..Len(result.general) : PlacedAsConfigured(DictKeys(result.general[k]))

\* A report is returned with a record of columns of all three classes, built
\* from an entry whose remaining columns were not in alphabetical order.
C14_Witness ==
    /\ pc = "done"
    /\ \E k \in 1..Len(result.general) :
           LET Classes(keys) == { ColumnClass(keys[p]) : p \in 1..Len(keys) }
           IN  Classes(DictKeys(result.general[k])) = {1, 2, 3}
    /\ \E k \in 1..Len(response) :
           LET Unordered(keys) ==
                   \E p, q \in 1..Len(keys) :
                       /\ p < q
                       /\ ColumnClass(keys[p]) = 3
                       /\ ColumnClass(keys[q]) = 3
                       /\ StrLess(keys[q], keys[p])
           IN  Unordered(DictKeys(response[k]))

\* C15: no record of the returned report holds a column of the drop list:
\* division, occupation, conversion effective date, bill location, _merge.
C15_DropListApplied ==
    pc = "done" =>
        \A k \in 1..Len(result.general) :
            \A col \in {"division", "occupation", "conversion effective date",
                         "bill location", "_merge"} :
                ~DictHas(result.general[k], col)

\* A report is returned that was consolidated from entries holding every
\* column of the drop list, those of the primary table and those of the
\* partner table.
C15_Witness ==
    /\ pc = "done"
    /\ result.general # << >>
    /\ \A col \in {"division", "occupation", "conversion effective date",
                     "bill location", "_merge"} :
           \E k \in 1..Len(response) : DictHas(response[k], col)

\* C16: consolidation run again on its own output leaves the list of records
\* and the column order of every record unchanged, and the returned report is
\* the value consolidation has on the entries built.
C16_ConsolidationIdempotent ==
    pc = "done" =>
        /\ result.general = consolidate_and_order_response(
                                  response, sort_fixed_columns, sort_match_columns,
                                  drop_columns)
        /\ consolidate_and_order_response(
                result.general, sort_fixed_columns, sort_match_columns,
                drop_columns) = result.general

\* A report is returned in which consolidation joined entries, dropped
\* columns and moved columns.
C16_Witness ==
    /\ pc = "done"
    /\ Len(result.general) < Len(response)
    /\ \E k \in 1..Len(result.general) :
           /\ Len(DictKeys(result.general[k])) > Cardinality(Range(sort_fixed_columns))
           /\ \A m \in 1..Len(response) :
                  DictKeys(response[m]) # DictKeys(result.general[k])

(***************************************************************************)
(* Flags, diff passes and source tags: claims                              *)
(***************************************************************************)

\* A flag of the form is true.
SomeFlagTrue == form_data.validateData = "true" \/ form_data.normalizeData = "true"

\* C17: the step the handler takes on the cleansed tables is the
\* validate/normalize pass on both tables when validateData or normalizeData
\* is true: the step leaves the tables the pass gives, or fails the request,
\* and it fails a request that has both flags only when the pass fails; when
\* both flags are false the step leaves both tables as cleansing left them.
\* The join is made after that step only, on the tables it left.
C17_FlagGating ==
    [][ /\ pc = "cleansed" =>
            /\ SomeFlagTrue =>
                   \/ /\ pc' = "validated"
                      /\ validate_and_normalize_data(df_symetra, df_partner).status = "ok"
                      /\ df_symetra' = validate_and_normalize_data(df_symetra, df_partner).df_symetra
                      /\ df_partner' = validate_and_normalize_data(df_symetra, df_partner).df_partner
                   \/ /\ pc' = "error"
                      /\ \/ validate_and_normalize_data(df_symetra, df_partner).status # "ok"
                         \/ ABSENT \in {form_data.validateData, form_data.normalizeData}
            /\ (form_data.validateData = "false" /\ form_data.normalizeData = "false") =>
                   /\ pc' = "validated"
                   /\ df_symetra' = df_symetra
                   /\ df_partner' = df_partner
        /\ merged' # merged =>
            /\ pc = "validated"
            /\ df_symetra' = df_symetra
            /\ df_partner' = df_partner
            /\ \E order \in {"sorted", "appearance"} :
                   merged' = merge_dataframes(df_symetra, df_partner, order) ]_vars

\* On normalizeData alone the pass has run on both tables before the join:
\* the salary of each is an amount of two decimals.
C17_Witness ==
    /\ pc = "validated"
    /\ form_data.validateData = "false"
    /\ form_data.normalizeData = "true"
    /\ merged = NoMerge
    /\ Len(df_symetra.rows) > 0
    /\ Len(df_partner.rows) > 0
    /\ Cell(df_symetra, 1, "salary") = "100.00"
    /\ Cell(df_partner, 1, "salary") = "100.00"

\* The entries of the base-attribute pass among the entries built: those of
\* matched rows, which carry both columns of every extended attribute.
BaseColumns(first, second) ==
    { extended_bases_attribs[k] \o s : k \in 1..Len(extended_bases_attribs), s \in {first, second} }

\* The entry is sound as an entry of a diff pass over the columns suffixed
\* first and second: its summary is not empty, and when it names a change of
\* an extended attribute the two values of the attribute differ.
SoundDiffEntry(item, first, second) ==
    /\ DictGet(item, "change") # ""
    /\ \A k \in 1..Len(extended_bases_attribs) :
           (\E s \in 1..Len(Summaries(item)) :
                StartsWith(Summaries(item)[s], extended_bases_attribs[k] \o " changed from"))
           => KeyCell(DictGet(item, extended_bases_attribs[k] \o first))
                 # KeyCell(DictGet(item, extended_bases_attribs[k] \o second))

\* C18: every entry built for a matched row has a summary that is not empty,
\* and names a change of gender or salary only when the two values differ:
\* a matched row whose extended attributes are equal yields no entry.
C18_BaseDiffEntries ==
    /\ \A k \in 1..Len(response) :
           BaseColumns("_enrollment", "_other") \subseteq Range(DictKeys(response[k]))
           => SoundDiffEntry(response[k], "_enrollment", "_other")
    /\ \A k \in 1..Len(generated.general) :
           (/\ BaseColumns("_partner", "_symetra") \subseteq Range(DictKeys(generated.general[k]))
            /\ DictGet(generated.general[k], "_merge") = "both")
           => SoundDiffEntry(generated.general[k], "_partner", "_symetra")

\* Both tables have the columns the base-attribute pass compares.
BaseColumnsPresent ==
    \A k \in 1..Len(extended_bases_attribs) :
        /\ HasColumn(df_symetra, extended_bases_attribs[k])
        /\ HasColumn(df_partner, extended_bases_attribs[k])

\* C19: a product with no attribute column in both tables does not fail the
\* request: once the join is made on tables that have the columns of the
\* base-attribute pass, the request does not end in the generic error.
C19_ProductWithoutColumnsSkipped ==
    (merged # NoMerge /\ BaseColumnsPresent) => pc # "error"

\* The columns other than the key that both tables have.
SharedColumns ==
    { c \in Range(df_symetra.columns) \cap Range(df_partner.columns) :
        c \notin Range(base_matching_attribs) }

\* C20: in every matched row of the outer join, for every column other than
\* the key that both tables have, the column with the suffix of the primary
\* source holds the value of a primary row of that identity and the column
\* with the suffix of the partner source the value of a partner row of it.
C20_SourceTagging ==
    Joined =>
        \A r \in Tagged(merged.df_merged, "both") :
            \E a \in 1..Len(df_symetra.rows), b \in 1..Len(df_partner.rows) :
                /\ RowKey(df_symetra, a) = RowKey(merged.df_merged, r)
                /\ RowKey(df_partner, b) = RowKey(merged.df_merged, r)
                /\ \A c \in SharedColumns :
                       /\ KeyCell(Cell(merged.df_merged, r, c \o "_symetra"))
                              = KeyCell(Cell(df_symetra, a, c))
                       /\ KeyCell(Cell(merged.df_merged, r, c \o "_partner"))
                              = KeyCell(Cell(df_partner, b, c))

(***************************************************************************)
(* Unmatched entries, header translation, reentrancy: claims               *)
(***************************************************************************)

\* The rows of a join result in one partition, in their order.
TaggedRows(df, tag) ==
    LET Is(r) == Cell(df, r, "_merge") = tag
    IN  SelectSeq([r \in 1..Len(df.rows) |-> r], Is)

\* The k-th entry built for a partition holds, in every column of the join
\* result, the value of the k-th row of the partition.
EntriesCopyRows(general, df, tag) ==
    /\ Len(EntriesOf(general, tag)) = Len(TaggedRows(df, tag))
    /\ \A k \in 1..Len(TaggedRows(df, tag)) :
           \A c \in 1..Len(df.columns) :
               DictGet(EntriesOf(general, tag)[k], df.columns[c])
                   = df.rows[TaggedRows(df, tag)[k]][c]

\* C21: the entry built for an unmatched row copies the fields of that very
\* row, its dob included, also when another unmatched row of the same side
\* has the same first and last name.
C21_UnmatchedEntryCopiesOwnRow ==
    pc \in {"built", "done"} =>
        /\ EntriesCopyRows(response, merged.df_merged, "left_only")
        /\ EntriesCopyRows(response, merged.df_merged, "right_only")

\* The file the request takes as the partner source.
OtherFile == IF StartsWith(file1.filename, "Enrollment") THEN file2 ELSE file1

\* The table holds the lines of data of the file, in their order, every cell
\* as the reader gives it.
HoldsDataOf(df, file) ==
    /\ Len(df.rows) = Len(file.lines)
    /\ \A r \in 1..Len(file.lines) :
           \A k \in 1..Len(file.lines[r]) :
               df.rows[r][k] = IF file.lines[r][k] \in NaValues THEN NAN ELSE file.lines[r][k]

\* C22: header translation changes the header row only: each table has the
\* rows of its file in the same number and order and every cell of data as
\* it is in the file, also in a line of data whose text is the header line.
C22_HeaderTranslationKeepsData ==
    pc = "processed" =>
        /\ HoldsDataOf(df_symetra, PrimaryFile)
        /\ HoldsDataOf(df_partner, OtherFile)

(***************************************************************************)
(* Cleansing, configuration, validation pass, idempotence: claims          *)
(***************************************************************************)

\* The text is empty or of blanks only.
IsBlank(v) == IsStr(v) /\ \A k \in 1..Len(v) : CharAt(v, k) = " "

\* No cell of the table is missing in another way than by the text "null".
NoMissingCell(df) ==
    \A r \in 1..Len(df.rows) :
        \A k \in 1..Len(df.rows[r]) :
            ~IsNull(df.rows[r][k]) /\ ~IsBlank(df.rows[r][k])

\* C24: after cleansing every cell of both tables that was empty, blank or
\* missing holds "null": no cell of a cleansed table is None, NaN, empty or
\* blank.
C24_CleansedNulls ==
    pc = "cleansed" => (NoMissingCell(df_symetra) /\ NoMissingCell(df_partner))

\* The types a header dictionary gives the canonical name.
TypesOf(fields, canonical) ==
    { fields[k][3] : k \in { m \in 1..Len(fields) : fields[m][2] = canonical } }

\* C25: for every known product and each of its attributes benefit, class
\* and effective date, both header dictionaries map a header to
\* "<product> <attribute>" and give it one and the same type, at every
\* step of a request.
C25_ConfigurationConsistent ==
    pc # "idle" =>
        \A p \in 1..Len(core_product_names), a \in 1..Len(core_product_attribs) :
            LET Comparable(col) ==
                    /\ TypesOf(enrollment_fields, col) # {}
                    /\ Cardinality(TypesOf(enrollment_fields, col)
                                       \cup TypesOf(partner_fields, col)) = 1
                    /\ TypesOf(partner_fields, col) # {}
            IN  Comparable(core_product_names[p] \o " " \o core_product_attribs[a])

\* The validation pass has run on two tables that both hold the three
\* attribute columns of every known product.
C25_Witness ==
    /\ pc = "validated"
    /\ ValidationAsked
    /\ \A p \in 1..Len(core_product_names), a \in 1..Len(core_product_attribs) :
           /\ HasColumn(df_symetra, core_product_names[p] \o " " \o core_product_attribs[a])
           /\ HasColumn(df_partner, core_product_names[p] \o " " \o core_product_attribs[a])
    /\ Len(df_symetra.rows) > 0
    /\ Len(df_partner.rows) > 0
    /\ Cell(df_symetra, 1, "basic employee life benefit") = "100.00"
    /\ Cell(df_partner, 1, "basic employee life benefit") = "100.00"

\* The normalizer of a kind applied to a value.
NormalizerOf(kind, v) ==
    CASE kind = "gender" -> normalize_gender(v)
      [] kind = "currency" -> normalize_and_validate_dollar_amount(v)
      [] kind = "date" -> validate_and_normalize_date(v)
      [] kind = "name" -> validate_and_normalize_names(v)
      [] kind = "string" -> validate_and_normalize_string(v)

\* C27: every normalizer is idempotent: applied to a value it has returned,
\* "null" included, it returns that value and does not fail.
C27_NormalizersIdempotent ==
    norm_pc = "returned" => NormalizerOf(norm_fn, norm_ret) = norm_ret

\* The table lacks a column its header dictionary types string, date,
\* currency or name.
LacksTypedColumn(df, fields) ==
    \E k \in 1..Len(fields) :
        /\ fields[k][3] \in {"string", "date", "currency", "name"}
        /\ ~HasColumn(df, fields[k][2])

\* The pass has left alone the columns of the table that the dictionary
\* does not type string, date, currency or name.
OtherColumnsKept(before, after, fields) ==
    /\ after.columns = before.columns
    /\ \A c \in Range(before.columns) :
           TypesOf(fields, c) \cap {"string", "date", "currency", "name"} = {}
           => Column(after, c) = Column(before, c)

\* C26: when the validate/normalize pass runs on a table that lacks a column
\* its dictionary types string, date, currency or name, the request ends in
\* the generic error; when the pass succeeds, the columns typed gender, not
\* typed, or typed with a tag the pass does not know are as they were.
C26_PassRequiresTypedColumns ==
    [][ (pc = "cleansed" /\ ValidationAsked) =>
            /\ (\/ LacksTypedColumn(df_symetra, enrollment_fields)
                \/ LacksTypedColumn(df_partner, partner_fields))
               => (pc' = "error" /\ result' = InternalServerError)
            /\ pc' = "validated" =>
                   /\ OtherColumnsKept(df_symetra, df_symetra', enrollment_fields)
                   /\ OtherColumnsKept(df_partner, df_partner', partner_fields) ]_vars

\* A request that asked for the pass has failed on cleansed tables without a
\* cell the pass refuses, before any join: the primary table lacks typed
\* columns.
C26_Witness ==
    /\ pc = "error"
    /\ result = InternalServerError
    /\ ValidationAsked
    /\ form_data.normalizeData # ABSENT
    /\ merged = NoMerge
    /\ HasColumn(df_symetra, "last name")
    /\ LacksTypedColumn(df_symetra, enrollment_fields)
    /\ ~BadCell
    /\ \A f \in {file1, file2} : \A r \in 1..Len(f.lines) : "" \notin Range(f.lines[r])

(***************************************************************************)
(* Consolidation and reordering: frame claims                              *)
(***************************************************************************)

\* The first entry built for the first and last name of the record.
FirstEntryOf(record) ==
    response[CHOOSE k \in 1..Len(response) :
                 /\ ConsolidationKey(response[k]) = ConsolidationKey(record)
                 /\ \A m \in 1..(k - 1) :
                        ConsolidationKey(response[m]) # ConsolidationKey(record)]

\* C28: the record of a key holds the field values of the first entry built
\* for the key: every column of the record but change is a column of that
\* entry with the value it has there, and every column of that entry is in
\* the record unless the drop list names it.
C28_FirstEntryKept ==
    pc = "done" =>
        \A k \in 1..Len(result.general) :
            /\ \A c \in Range(DictKeys(result.general[k])) \ {"change"} :
                   /\ DictHas(FirstEntryOf(result.general[k]), c)
                   /\ DictGet(result.general[k], c) = DictGet(FirstEntryOf(result.general[k]), c)
            /\ \A c \in Range(DictKeys(FirstEntryOf(result.general[k]))) \ Range(drop_columns) :
                   DictHas(result.general[k], c)

\* A record consolidated from two entries of one name of which the second
\* has a column the first lacks and another value in a column they share.
C28_Witness ==
    /\ pc = "done"
    /\ \E a, b \in 1..Len(response) :
           /\ a < b
           /\ ConsolidationKey(response[a]) = ConsolidationKey(response[b])
           /\ \A m \in 1..(a - 1) :
                  ConsolidationKey(response[m]) # ConsolidationKey(response[a])
           /\ \E c \in Range(DictKeys(response[b])) \ Range(drop_columns) :
                  ~DictHas(response[a], c)
           /\ \E c \in Range(DictKeys(response[b])) \ {"change"} :
                  /\ DictHas(response[a], c)
                  /\ DictGet(response[a], c) # DictGet(response[b], c)

\* The records as they are just before the reordering: consolidated, change
\* moved, the columns of the drop list removed.
BeforeReordering ==
    LET Each(consolidated) ==
            [k \in 1..Len(consolidated) |->
                DropColumns(MoveChange(consolidated[k]), drop_columns)]
    IN  Each(Consolidate(response))

\* C30: the final reordering is a permutation of the columns of every
\* record: after it the record has the columns it had just before, each
\* once and with its value, also a column that is in the fixed list and
\* matches a pattern.
C30_ReorderingIsPermutation ==
    pc = "done" =>
        /\ Len(result.general) = Len(BeforeReordering)
        /\ \A k \in 1..Len(result.general) :
               /\ Range(result.general[k]) = Range(BeforeReordering[k])
               /\ Len(result.general[k]) = Len(BeforeReordering[k])
               /\ Cardinality(Range(DictKeys(result.general[k]))) = Len(result.general[k])

\* A report is returned with a record that holds salary effective date, a
\* fixed column that the pattern salary.* matches, and whose columns the
\* reordering has moved.
C30_Witness ==
    /\ pc = "done"
    /\ \E k \in 1..Len(result.general) :
           /\ DictHas(result.general[k], "salary effective date")
           /\ DictHas(result.general[k], "salary_enrollment")
           /\ result.general[k] # BeforeReordering[k]
           /\ Len(result.general[k]) > Len(sort_fixed_columns)

(***************************************************************************)
(* Reentrancy and source roles: claims                                     *)
(***************************************************************************)

\* What handler r returns for its own request when no other request is
\* served, with some order of the keys of the join.
ReportsAlone(r) ==
    { benefits_compare(requests[r].file1, requests[r].file2, requests[r].form_data,
                       order, ConfiguredTables) : order \in {"sorted", "appearance"} }

\* C23: no step of a request writes the module-level lists, and whatever
\* the interleaving of two requests each of them returns what it returns
\* when it runs alone, its tables being read from its own uploads.
C23_Reentrancy ==
    /\ module_tables = ConfiguredTables
    /\ \A r \in DOMAIN requests :
           /\ requests[r].pc \in {"done", "error"} => requests[r].result \in ReportsAlone(r)
           /\ requests[r].pc = "processed" =>
                  /\ process_files(requests[r].file1, requests[r].file2).status = "ok"
                  /\ requests[r].df_symetra
                         = process_files(requests[r].file1, requests[r].file2).df_symetra
                  /\ requests[r].df_partner
                         = process_files(requests[r].file1, requests[r].file2).df_partner

\* Two requests with different uploads have both returned a report with
\* records in it, each its own.
C23_Witness ==
    /\ Len(requests) = 2
    /\ requests[1].pc = "done"
    /\ requests[2].pc = "done"
    /\ requests[1].file1 # requests[2].file1
    /\ requests[1].result.general # << >>
    /\ requests[2].result.general # << >>
    /\ requests[1].result # requests[2].result

\* Exactly one of the two uploads has a name that starts with "Enrollment".
OneEnrollmentName ==
    StartsWith(file1.filename, "Enrollment") # StartsWith(file2.filename, "Enrollment")

\* The upload named Enrollment..., and the other one.
EnrollmentUpload == IF StartsWith(file1.filename, "Enrollment") THEN file1 ELSE file2

OtherUpload == IF StartsWith(file1.filename, "Enrollment") THEN file2 ELSE file1

\* What the handler returns when the two uploads are sent the other way
\* round, with some order of the keys of the join.
ReportsSwapped ==
    { benefits_compare(file2, file1, form_data, order, ConfiguredTables) :
          order \in {"sorted", "appearance"} }

\* C29: when exactly one upload is named Enrollment..., the primary table is
\* read from that upload whether it is file1 or file2, and the request sent
\* with the uploads swapped returns the same report (or fails alike); when
\* neither name has the prefix the request fails.
C29_RolesIndependentOfOrder ==
    /\ OneEnrollmentName /\ pc = "processed" =>
           /\ df_symetra.columns = MapEnrollmentColumns(EnrollmentUpload.header)
           /\ Len(df_symetra.rows) <= Len(EnrollmentUpload.lines)
           /\ df_partner.columns = PartnerHeaderMap(OtherUpload.header).columns
           /\ process_files(file2, file1) = process_files(file1, file2)
    /\ OneEnrollmentName /\ pc \in {"done", "error"} => result \in ReportsSwapped
    /\ /\ pc \notin {"idle", "received"}
       /\ ~StartsWith(file1.filename, "Enrollment")
       /\ ~StartsWith(file2.filename, "Enrollment")
       => pc = "error" /\ result = InternalServerError

\* The partner export was sent as file1 and the Enrollment export as file2,
\* and a report with records in it has been returned.
C29_Witness ==
    /\ pc = "done"
    /\ ~StartsWith(file1.filename, "Enrollment")
    /\ StartsWith(file2.filename, "Enrollment")
    /\ result.general # << >>

====
